---- MODULE Spec2Model ----
(***************************************************************************)
(* Model of the generic linked-list package `list`: the four containers    *)
(* SinglyLinkedList, CircularSinglyLinkedList, DoublyLinkedList and        *)
(* CircularDoublyLinkedList over the two node types SinglyLinkedNode and   *)
(* DoublyLinkedNode.                                                       *)
(*                                                                         *)
(* The heap is a set of node identities 1..MaxNodes; a pointer is a node   *)
(* identity or Nil.  A list value is a record                              *)
(*   [head, tail, size, next, prev, value, fault]                          *)
(* holding the struct fields of the list, the fields of every node and the *)
(* way the running call ended ("none", a nil dereference "nil", or a loop  *)
(* that never ends "loop").  The circular lists have no head field and     *)
(* the singly linked nodes no prev field: these stay Nil.                  *)
(*                                                                         *)
(* Go is garbage collected: a node no pointer of the list leads to is      *)
(* reclaimed, and an allocation returns a zeroed node that is none of the  *)
(* nodes still in use.  The nodes a call drops keep the fields the call    *)
(* left them with until the call has returned.                             *)
(***************************************************************************)
EXTENDS Integers, Sequences, FiniteSets, TLC

\* Number of nodes the heap holds at one time.
MaxNodes == 3

\* The element type T is modelled by the values 1..MaxVal.
MaxVal == 2

\* The nil pointer.
Nil == 0

Nodes == 1..MaxNodes

Values == 1..MaxVal

\* Indices handed to InsertAt, Get and Set: from below the range to above it.
Indices == (0 - 1)..(MaxNodes + 1)

Kinds == {"SinglyLinkedList", "CircularSinglyLinkedList",
          "DoublyLinkedList", "CircularDoublyLinkedList"}

Circular == {"CircularSinglyLinkedList", "CircularDoublyLinkedList"}

Doubly == {"DoublyLinkedList", "CircularDoublyLinkedList"}

\* other is a second list of the same type in the same heap: its head, tail
\* and size.
VARIABLES kind, head, tail, size, next, prev, value, fault, last, other

vars == <<kind, head, tail, size, next, prev, value, fault, last, other>>

\* The list and the heap as one value.  roots are the pointers into the heap
\* that the program holds besides those of the list.
Cur ==
  [head |-> head, tail |-> tail, size |-> size, next |-> next, prev |-> prev,
   value |-> value, fault |-> fault, roots |-> {other.head, other.tail} \ {Nil}]

\* A call panics (nil dereference) or never returns.
Panic(s, why) == [s EXCEPT !.fault = why]

\* Steps after which a walk over an unchanged heap has revisited a node.
Fuel == MaxNodes + 1

\* Strings are sequences of characters.

DecimalDigits == <<"0", "1", "2", "3", "4", "5", "6", "7", "8", "9">>

\* %v of an int: its decimal digits.
RECURSIVE FormatValue(_)
FormatValue(n) ==
  IF n < 10 THEN <<DecimalDigits[n + 1]>>
  ELSE FormatValue(n \div 10) \o <<DecimalDigits[(n % 10) + 1]>>

\* %d of an int: a minus sign for a negative one, then the decimal digits.
FormatInt(n) ==
  IF n < 0 THEN <<"-">> \o FormatValue(0 - n) ELSE FormatValue(n)

\* fmt.Errorf("index %d out of bounds", index): the error with that message.
Errorf(index) ==
  <<"i", "n", "d", "e", "x", " ">> \o FormatInt(index)
    \o <<" ", "o", "u", "t", " ", "o", "f", " ", "b", "o", "u", "n", "d", "s">>

\* The nil error.
NoError == <<>>

(***************************************************************************)
(* Nodes                                                                   *)
(***************************************************************************)

\* The nodes in S and those their links lead to.
Linked(s, S) ==
  S \cup {s.next[n] : n \in S} \cup {s.prev[n] : n \in S}

RECURSIVE Reach(_, _)
Reach(s, S) ==
  LET T == Linked(s, S) \ {Nil}
  IN  IF T = S THEN S ELSE Reach(s, T)

\* The nodes in use: those the program's pointers lead to.
Live(s) == Reach(s, ({s.head, s.tail} \cup s.roots) \ {Nil})

\* The garbage collector: the nodes not in use are reclaimed.
Collect(s) ==
  LET live == Live(s)
  IN  [s EXCEPT !.next = [n \in Nodes |-> IF n \in live THEN s.next[n] ELSE Nil],
                !.prev = [n \in Nodes |-> IF n \in live THEN s.prev[n] ELSE Nil],
                !.value = [n \in Nodes |-> IF n \in live THEN s.value[n] ELSE 0]]

\* The heap has room for one more node.
HasRoom(s) == Live(s) # Nodes

\* An allocator that only knows the nodes of the list it is called for.
NewNode_OwnListOnly(s) ==
  LET free == Nodes \ Reach(s, {s.head, s.tail} \ {Nil})
  IN  CHOOSE n \in free : \A m \in free : n <= m

\* The address the next allocation returns: a node not in use.
NewNode(s) ==
  LET free == Nodes \ Live(s)
  IN  CHOOSE n \in free : \A m \in free : n <= m

\* &SinglyLinkedNode[T]{value: value}
NewSinglyLinkedNode(s, v) ==
  LET n == NewNode(s)
  IN  [s EXCEPT !.value[n] = v, !.next[n] = Nil]

\* &DoublyLinkedNode[T]{value: value}
NewDoublyLinkedNode(s, v) ==
  LET n == NewNode(s)
  IN  [s EXCEPT !.value[n] = v, !.next[n] = Nil, !.prev[n] = Nil]

(***************************************************************************)
(* Loops shared by the containers.  Each returns [node, fault].            *)
(***************************************************************************)

\* for range k { current = current.Next() }
RECURSIVE Advance(_, _, _)
Advance(s, current, k) ==
  IF k <= 0 THEN [node |-> current, fault |-> "none"]
  ELSE IF current = Nil THEN [node |-> Nil, fault |-> "nil"]
  ELSE Advance(s, s.next[current], k - 1)

\* for current.Next() != target { current = current.Next() }
RECURSIVE WalkToPredecessor(_, _, _, _)
WalkToPredecessor(s, current, target, fuel) ==
  IF current = Nil THEN [node |-> Nil, fault |-> "nil"]
  ELSE IF s.next[current] = target THEN [node |-> current, fault |-> "none"]
  ELSE IF fuel = 0 THEN [node |-> Nil, fault |-> "loop"]
  ELSE WalkToPredecessor(s, s.next[current], target, fuel - 1)

\* for current := l.Head(); current != nil; current = current.Next() {
\*     if current.Value() == value { return current } }; return nil
RECURSIVE FindUntilNil(_, _, _, _)
FindUntilNil(s, current, v, fuel) ==
  IF current = Nil THEN [node |-> Nil, fault |-> "none"]
  ELSE IF s.value[current] = v THEN [node |-> current, fault |-> "none"]
  ELSE IF fuel = 0 THEN [node |-> Nil, fault |-> "loop"]
  ELSE FindUntilNil(s, s.next[current], v, fuel - 1)

\* for current := l.Head(); current != nil; current = current.Next() {
\*     action(current.Value()) }
\* The values handed to action (or appended to the slice), in call order.
RECURSIVE VisitUntilNil(_, _, _)
VisitUntilNil(s, current, fuel) ==
  IF current = Nil THEN [out |-> <<>>, fault |-> "none"]
  ELSE IF fuel = 0 THEN [out |-> <<>>, fault |-> "loop"]
  ELSE LET r == VisitUntilNil(s, s.next[current], fuel - 1)
       IN  [out |-> <<s.value[current]>> \o r.out, fault |-> r.fault]

\* for range l.Size() { action(current.Value()); current = current.Next() }
\* seen lists the nodes whose Value() the loop read, in order.
RECURSIVE VisitCounted(_, _, _)
VisitCounted(s, current, k) ==
  IF k <= 0 THEN [out |-> <<>>, fault |-> "none", seen |-> <<>>]
  ELSE IF current = Nil THEN [out |-> <<>>, fault |-> "nil", seen |-> <<>>]
  ELSE LET r == VisitCounted(s, s.next[current], k - 1)
       IN  [out |-> <<s.value[current]>> \o r.out, fault |-> r.fault,
            seen |-> <<current>> \o r.seen]

\* fmt.Sprintf("[%v]", value)
Sprintf(v) == <<"[">> \o FormatValue(v) \o <<"]">>

\* for { result += fmt.Sprintf("[%v]", current.Value())
\*       if !current.HasNext() { break }
\*       result += sep; current = current.Next() }
RECURSIVE StringUntilNoNext(_, _, _, _)
StringUntilNoNext(s, current, sep, fuel) ==
  IF current = Nil THEN [out |-> <<>>, fault |-> "nil"]
  ELSE IF s.next[current] = Nil
       THEN [out |-> Sprintf(s.value[current]), fault |-> "none"]
  ELSE IF fuel = 0 THEN [out |-> <<>>, fault |-> "loop"]
  ELSE LET r == StringUntilNoNext(s, s.next[current], sep, fuel - 1)
       IN  [out |-> Sprintf(s.value[current]) \o sep \o r.out,
            fault |-> r.fault]

\* The counted loop without its i < l.Size()-1 test: a separator after every
\* element.
RECURSIVE StringCounted_TrailingSeparator(_, _, _, _)
StringCounted_TrailingSeparator(s, current, sep, i) ==
  IF i >= s.size THEN [out |-> <<>>, fault |-> "none", seen |-> <<>>]
  ELSE IF current = Nil THEN [out |-> <<>>, fault |-> "nil", seen |-> <<>>]
  ELSE LET r == StringCounted_TrailingSeparator(s, s.next[current], sep, i + 1)
       IN  [out |-> Sprintf(s.value[current]) \o sep \o r.out,
            fault |-> r.fault, seen |-> <<current>> \o r.seen]

\* for i := range l.Size() { result += fmt.Sprintf("[%v]", current.Value())
\*       if i < l.Size()-1 { result += sep }; current = current.Next() }
RECURSIVE StringCounted(_, _, _, _)
StringCounted(s, current, sep, i) ==
  IF i >= s.size THEN [out |-> <<>>, fault |-> "none", seen |-> <<>>]
  ELSE IF current = Nil THEN [out |-> <<>>, fault |-> "nil", seen |-> <<>>]
  ELSE LET r == StringCounted(s, s.next[current], sep, i + 1)
       IN  [out |-> Sprintf(s.value[current])
                      \o (IF i < s.size - 1 THEN sep ELSE <<>>) \o r.out,
            fault |-> r.fault, seen |-> <<current>> \o r.seen]

(***************************************************************************)
(* SinglyLinkedList                                                        *)
(***************************************************************************)

SinglyLinkedList_Head(s) == s.head

SinglyLinkedList_Tail(s) == s.tail

\* Clear that drops the nodes but forgets to reset size.
SinglyLinkedList_Clear_KeepsSize(s) == [s EXCEPT !.head = Nil, !.tail = Nil]

SinglyLinkedList_Clear(s) == [s EXCEPT !.head = Nil, !.tail = Nil, !.size = 0]

SinglyLinkedList_Prepend(s, v) ==
  LET newNode == NewNode(s)
      a == NewSinglyLinkedNode(s, v)
      b == [a EXCEPT !.next[newNode] = a.head, !.head = newNode]
      c == IF b.tail = Nil THEN [b EXCEPT !.tail = newNode] ELSE b
  IN  [c EXCEPT !.size = c.size + 1]

SinglyLinkedList_Append(s, v) ==
  LET newNode == NewNode(s)
      a == NewSinglyLinkedNode(s, v)
      b == IF a.head = Nil THEN [a EXCEPT !.head = newNode] ELSE a
      c == IF b.tail # Nil THEN [b EXCEPT !.next[b.tail] = newNode] ELSE b
  IN  [c EXCEPT !.tail = newNode, !.size = c.size + 1]

SinglyLinkedList_Find(s, v) == FindUntilNil(s, s.head, v, Fuel)

\* RemoveFirst without the reset of tail when the list becomes empty.
SinglyLinkedList_RemoveFirst_KeepsTail(s) ==
  IF s.size = 0 THEN s
  ELSE IF s.head = Nil THEN Panic(s, "nil")
  ELSE [s EXCEPT !.head = s.next[s.head], !.size = s.size - 1]


SinglyLinkedList_RemoveFirst(s) ==
  IF s.size = 0 THEN s
  ELSE IF s.head = Nil THEN Panic(s, "nil")
  ELSE LET a == [s EXCEPT !.head = s.next[s.head]]
           b == IF a.head = Nil THEN [a EXCEPT !.tail = Nil] ELSE a
       IN  [b EXCEPT !.size = b.size - 1]

\* RemoveLast without current.SetNext(nil): the new tail keeps its link to
\* the node taken out.
SinglyLinkedList_RemoveLast_KeepsLink(s) ==
  IF s.size = 0 THEN s
  ELSE IF s.size = 1
       THEN [s EXCEPT !.head = Nil, !.tail = Nil, !.size = s.size - 1]
  ELSE LET w == WalkToPredecessor(s, s.head, s.tail, Fuel)
       IN  IF w.fault # "none" THEN Panic(s, w.fault)
           ELSE [s EXCEPT !.tail = w.node, !.size = s.size - 1]


SinglyLinkedList_RemoveLast(s) ==
  IF s.size = 0 THEN s
  ELSE IF s.size = 1
       THEN [s EXCEPT !.head = Nil, !.tail = Nil, !.size = s.size - 1]
  ELSE LET w == WalkToPredecessor(s, s.head, s.tail, Fuel)
       IN  IF w.fault # "none" THEN Panic(s, w.fault)
           ELSE [s EXCEPT !.next[w.node] = Nil, !.tail = w.node,
                          !.size = s.size - 1]

\* Remove without the update of tail when the node taken out was the tail.
SinglyLinkedList_Remove_KeepsTail(s, v) ==
  LET f == SinglyLinkedList_Find(s, v)
  IN  IF f.fault # "none" THEN Panic(s, f.fault)
      ELSE IF f.node = Nil THEN s
      ELSE IF f.node = s.head THEN SinglyLinkedList_RemoveFirst(s)
      ELSE LET w == WalkToPredecessor(s, s.head, f.node, Fuel)
           IN  IF w.fault # "none" THEN Panic(s, w.fault)
               ELSE [s EXCEPT !.next[w.node] = s.next[f.node],
                              !.size = s.size - 1]


SinglyLinkedList_Remove(s, v) ==
  LET f == SinglyLinkedList_Find(s, v)
  IN  IF f.fault # "none" THEN Panic(s, f.fault)
      ELSE IF f.node = Nil THEN s
      ELSE IF f.node = s.head THEN SinglyLinkedList_RemoveFirst(s)
      ELSE LET w == WalkToPredecessor(s, s.head, f.node, Fuel)
           IN  IF w.fault # "none" THEN Panic(s, w.fault)
               ELSE LET a == [s EXCEPT !.next[w.node] = s.next[f.node]]
                        b == IF f.node = a.tail
                             THEN [a EXCEPT !.tail = w.node] ELSE a
                    IN  [b EXCEPT !.size = b.size - 1]

\* InsertAt walking index links instead of index-1 before it splices.
SinglyLinkedList_InsertAt_OffByOne(s, index, v) ==
  IF index < 0 \/ index > s.size THEN [st |-> s, err |-> Errorf(index)]
  ELSE IF index = 0
       THEN [st |-> SinglyLinkedList_Prepend(s, v), err |-> NoError]
  ELSE IF index = s.size
       THEN [st |-> SinglyLinkedList_Append(s, v), err |-> NoError]
  ELSE LET newNode == NewNode(s)
           a == NewSinglyLinkedNode(s, v)
           w == Advance(a, a.head, index)
       IN  IF w.fault # "none" \/ w.node = Nil
           THEN [st |-> Panic(a, "nil"), err |-> NoError]
           ELSE [st |-> [a EXCEPT !.next[newNode] = a.next[w.node],
                                  !.next[w.node] = newNode,
                                  !.size = a.size + 1],
                 err |-> NoError]


SinglyLinkedList_InsertAt(s, index, v) ==
  IF index < 0 \/ index > s.size THEN [st |-> s, err |-> Errorf(index)]
  ELSE IF index = 0
       THEN [st |-> SinglyLinkedList_Prepend(s, v), err |-> NoError]
  ELSE IF index = s.size
       THEN [st |-> SinglyLinkedList_Append(s, v), err |-> NoError]
  ELSE LET newNode == NewNode(s)
           a == NewSinglyLinkedNode(s, v)
           w == Advance(a, a.head, index - 1)
       IN  IF w.fault # "none" \/ w.node = Nil
           THEN [st |-> Panic(a, "nil"), err |-> NoError]
           ELSE [st |-> [a EXCEPT !.next[newNode] = a.next[w.node],
                                  !.next[w.node] = newNode,
                                  !.size = a.size + 1],
                 err |-> NoError]

SinglyLinkedList_Get(s, index) ==
  IF index < 0 \/ index >= s.size
  THEN [node |-> Nil, err |-> Errorf(index), fault |-> "none"]
  ELSE LET w == Advance(s, s.head, index)
       IN  [node |-> w.node, err |-> NoError, fault |-> w.fault]

\* Set that names the size of the list, not the index, in its error.
SinglyLinkedList_Set_ReportsSize(s, index, v) ==
  LET g == SinglyLinkedList_Get(s, index)
  IN  IF g.fault # "none" THEN [st |-> Panic(s, g.fault), err |-> NoError]
      ELSE IF g.err # NoError THEN [st |-> s, err |-> Errorf(s.size)]
      ELSE IF g.node = Nil THEN [st |-> Panic(s, "nil"), err |-> NoError]
      ELSE [st |-> [s EXCEPT !.value[g.node] = v], err |-> NoError]

SinglyLinkedList_Set(s, index, v) ==
  LET g == SinglyLinkedList_Get(s, index)
  IN  IF g.fault # "none" THEN [st |-> Panic(s, g.fault), err |-> NoError]
      ELSE IF g.err # NoError THEN [st |-> s, err |-> Errorf(index)]
      ELSE IF g.node = Nil THEN [st |-> Panic(s, "nil"), err |-> NoError]
      ELSE [st |-> [s EXCEPT !.value[g.node] = v], err |-> NoError]

\* The loop of Reverse: returns the list and the last node relinked.
RECURSIVE SinglyLinkedList_ReverseLoop(_, _, _, _)
SinglyLinkedList_ReverseLoop(s, prv, current, fuel) ==
  IF current = Nil THEN [st |-> s, prev |-> prv]
  ELSE IF fuel = 0 THEN [st |-> Panic(s, "loop"), prev |-> prv]
  ELSE SinglyLinkedList_ReverseLoop([s EXCEPT !.next[current] = prv],
                                    current, s.next[current], fuel - 1)

\* Reverse that leaves the links alone and moves the values instead.
SinglyLinkedList_Reverse_SwapsValues(s) ==
  LET at(i) == Advance(s, s.head, i).node
      places == 0..(s.size - 1)
  IN  [s EXCEPT !.value =
         [n \in Nodes |->
            IF \E i \in places : at(i) = n
            THEN s.value[at(s.size - 1 - (CHOOSE i \in places : at(i) = n))]
            ELSE s.value[n]]]

SinglyLinkedList_Reverse(s) ==
  LET a == [s EXCEPT !.tail = s.head]
      r == SinglyLinkedList_ReverseLoop(a, Nil, a.head, Fuel + Fuel)
  IN  IF r.st.fault # "none" THEN r.st
      ELSE [r.st EXCEPT !.head = r.prev]

SinglyLinkedList_Contains(s, v) ==
  LET f == SinglyLinkedList_Find(s, v)
  IN  [found |-> f.node # Nil, fault |-> f.fault]

SinglyLinkedList_ForEach(s) == VisitUntilNil(s, s.head, Fuel)

SinglyLinkedList_String(s) ==
  IF s.size = 0
  THEN [out |-> <<"S", "i", "n", "g", "l", "y", "L", "i", "n", "k", "e", "d", "L", "i", "s", "t", ":", " ", "[", "]">>,
        fault |-> "none"]
  ELSE LET r == StringUntilNoNext(s, s.head,
                                  <<" ", "-", ">", " ">>, Fuel)
       IN  [out |-> <<"S", "i", "n", "g", "l", "y", "L", "i", "n", "k", "e", "d", "L", "i", "s", "t", ":", " ">>
                      \o r.out,
            fault |-> r.fault]

(***************************************************************************)
(* CircularSinglyLinkedList                                                *)
(***************************************************************************)

CircularSinglyLinkedList_Tail(s) == s.tail

CircularSinglyLinkedList_Head(s) ==
  IF s.tail = Nil THEN Nil ELSE s.next[s.tail]

CircularSinglyLinkedList_Clear(s) == [s EXCEPT !.tail = Nil, !.size = 0]

CircularSinglyLinkedList_Prepend(s, v) ==
  LET newNode == NewNode(s)
      a == NewSinglyLinkedNode(s, v)
  IN  IF a.size = 0
      THEN [a EXCEPT !.next[newNode] = newNode, !.tail = newNode,
                     !.size = a.size + 1]
      ELSE IF a.tail = Nil THEN Panic(a, "nil")
      ELSE [a EXCEPT !.next[newNode] = a.next[a.tail],
                     !.next[a.tail] = newNode,
                     !.size = a.size + 1]

\* Append without the advance of tail to the new node.
CircularSinglyLinkedList_Append_NoAdvance(s, v) ==
  CircularSinglyLinkedList_Prepend(s, v)


CircularSinglyLinkedList_Append(s, v) ==
  LET a == CircularSinglyLinkedList_Prepend(s, v)
  IN  IF a.fault # "none" THEN a
      ELSE IF a.tail = Nil THEN Panic(a, "nil")
      ELSE [a EXCEPT !.tail = a.next[a.tail]]

\* The loop of Find that stops when it is back at the tail, not at the head.
RECURSIVE FindUntilHead_StopsAtTail(_, _, _, _)
FindUntilHead_StopsAtTail(s, current, v, fuel) ==
  IF current = Nil THEN [node |-> Nil, fault |-> "nil", seen |-> <<>>]
  ELSE IF s.value[current] = v
       THEN [node |-> current, fault |-> "none", seen |-> <<current>>]
  ELSE IF s.next[current] = s.tail
       THEN [node |-> Nil, fault |-> "none", seen |-> <<current>>]
  ELSE IF fuel = 0 THEN [node |-> Nil, fault |-> "loop", seen |-> <<current>>]
  ELSE LET r == FindUntilHead_StopsAtTail(s, s.next[current], v, fuel - 1)
       IN  [r EXCEPT !.seen = <<current>> \o r.seen]

\* for { if current.Value() == value { return current }
\*       current = current.Next(); if current == l.Head() { break } }
\* seen lists the nodes whose value the loop compared, in order.
RECURSIVE FindUntilHead(_, _, _, _)
FindUntilHead(s, current, v, fuel) ==
  IF current = Nil THEN [node |-> Nil, fault |-> "nil", seen |-> <<>>]
  ELSE IF s.value[current] = v
       THEN [node |-> current, fault |-> "none", seen |-> <<current>>]
  ELSE IF s.next[current] = CircularSinglyLinkedList_Head(s)
       THEN [node |-> Nil, fault |-> "none", seen |-> <<current>>]
  ELSE IF fuel = 0 THEN [node |-> Nil, fault |-> "loop", seen |-> <<current>>]
  ELSE LET r == FindUntilHead(s, s.next[current], v, fuel - 1)
       IN  [r EXCEPT !.seen = <<current>> \o r.seen]

CircularSinglyLinkedList_Find(s, v) ==
  IF s.size = 0 THEN [node |-> Nil, fault |-> "none", seen |-> <<>>]
  ELSE FindUntilHead(s, CircularSinglyLinkedList_Head(s), v, Fuel)

CircularSinglyLinkedList_RemoveFirst(s) ==
  IF s.size = 0 THEN s
  ELSE IF s.size = 1 THEN CircularSinglyLinkedList_Clear(s)
  ELSE IF s.tail = Nil THEN Panic(s, "nil")
  ELSE IF s.next[s.tail] = Nil THEN Panic(s, "nil")
  ELSE [s EXCEPT !.next[s.tail] = s.next[s.next[s.tail]],
                 !.size = s.size - 1]

\* RemoveLast that unlinks the last node but leaves tail on it.
CircularSinglyLinkedList_RemoveLast_KeepsTail(s) ==
  IF s.size = 0 THEN s
  ELSE IF s.size = 1 THEN CircularSinglyLinkedList_Clear(s)
  ELSE LET w == WalkToPredecessor(s, CircularSinglyLinkedList_Head(s),
                                  s.tail, Fuel)
       IN  IF w.fault # "none" THEN Panic(s, w.fault)
           ELSE [s EXCEPT !.next[w.node] = s.next[s.tail],
                          !.size = s.size - 1]

CircularSinglyLinkedList_RemoveLast(s) ==
  IF s.size = 0 THEN s
  ELSE IF s.size = 1 THEN CircularSinglyLinkedList_Clear(s)
  ELSE LET w == WalkToPredecessor(s, CircularSinglyLinkedList_Head(s),
                                  s.tail, Fuel)
       IN  IF w.fault # "none" THEN Panic(s, w.fault)
           ELSE [s EXCEPT !.next[w.node] = s.next[s.tail],
                          !.tail = w.node,
                          !.size = s.size - 1]

\* The loop of Remove: for range l.Size() { ... prev = current;
\* current = current.Next() }
\* The loop that unlinks the tail without moving tail to its predecessor.
RECURSIVE CircularSinglyLinkedList_RemoveLoop_KeepsTail(_, _, _, _, _)
CircularSinglyLinkedList_RemoveLoop_KeepsTail(s, prv, current, v, k) ==
  IF k = 0 THEN s
  ELSE IF current = Nil THEN Panic(s, "nil")
  ELSE IF s.value[current] = v
       THEN IF s.size = 1 THEN CircularSinglyLinkedList_Clear(s)
            ELSE IF prv = Nil THEN Panic(s, "nil")
            ELSE [s EXCEPT !.next[prv] = s.next[current],
                           !.size = s.size - 1]
  ELSE CircularSinglyLinkedList_RemoveLoop_KeepsTail(
         s, current, s.next[current], v, k - 1)

RECURSIVE CircularSinglyLinkedList_RemoveLoop(_, _, _, _, _)
CircularSinglyLinkedList_RemoveLoop(s, prv, current, v, k) ==
  IF k = 0 THEN s
  ELSE IF current = Nil THEN Panic(s, "nil")
  ELSE IF s.value[current] = v
       THEN IF s.size = 1 THEN CircularSinglyLinkedList_Clear(s)
            ELSE IF prv = Nil THEN Panic(s, "nil")
            ELSE LET a == [s EXCEPT !.next[prv] = s.next[current]]
                     b == IF current = a.tail
                          THEN [a EXCEPT !.tail = prv] ELSE a
                 IN  [b EXCEPT !.size = b.size - 1]
  ELSE CircularSinglyLinkedList_RemoveLoop(s, current, s.next[current],
                                           v, k - 1)

CircularSinglyLinkedList_Remove(s, v) ==
  IF s.size = 0 THEN s
  ELSE IF s.tail = Nil THEN Panic(s, "nil")
  ELSE CircularSinglyLinkedList_RemoveLoop(s, s.tail, s.next[s.tail],
                                           v, s.size)

\* The nodes whose value the loop of Remove compares, in order.
RECURSIVE CircularSinglyLinkedList_RemoveLoop_Examined(_, _, _, _)
CircularSinglyLinkedList_RemoveLoop_Examined(s, current, v, k) ==
  IF k = 0 \/ current = Nil THEN <<>>
  ELSE IF s.value[current] = v THEN <<current>>
  ELSE <<current>> \o CircularSinglyLinkedList_RemoveLoop_Examined(
                        s, s.next[current], v, k - 1)

CircularSinglyLinkedList_Remove_Examined(s, v) ==
  IF s.size = 0 \/ s.tail = Nil THEN <<>>
  ELSE CircularSinglyLinkedList_RemoveLoop_Examined(s, s.next[s.tail], v,
                                                    s.size)

CircularSinglyLinkedList_InsertAt(s, index, v) ==
  IF index < 0 \/ index > s.size THEN [st |-> s, err |-> Errorf(index)]
  ELSE IF index = 0
       THEN [st |-> CircularSinglyLinkedList_Prepend(s, v), err |-> NoError]
  ELSE IF index = s.size
       THEN [st |-> CircularSinglyLinkedList_Append(s, v), err |-> NoError]
  ELSE LET w == Advance(s, CircularSinglyLinkedList_Head(s), index - 1)
           newNode == NewNode(s)
           a == NewSinglyLinkedNode(s, v)
       IN  IF w.fault # "none" \/ w.node = Nil
           THEN [st |-> Panic(s, "nil"), err |-> NoError]
           ELSE [st |-> [a EXCEPT !.next[newNode] = a.next[w.node],
                                  !.next[w.node] = newNode,
                                  !.size = a.size + 1],
                 err |-> NoError]

\* Get that starts its walk at Tail() instead of Head().
CircularSinglyLinkedList_Get_FromTail(s, index) ==
  IF index < 0 \/ index >= s.size
  THEN [node |-> Nil, err |-> Errorf(index), fault |-> "none"]
  ELSE LET w == Advance(s, CircularSinglyLinkedList_Tail(s), index)
       IN  [node |-> w.node, err |-> NoError, fault |-> w.fault]


CircularSinglyLinkedList_Get(s, index) ==
  IF index < 0 \/ index >= s.size
  THEN [node |-> Nil, err |-> Errorf(index), fault |-> "none"]
  ELSE LET w == Advance(s, CircularSinglyLinkedList_Head(s), index)
       IN  [node |-> w.node, err |-> NoError, fault |-> w.fault]

CircularSinglyLinkedList_Set(s, index, v) ==
  LET g == CircularSinglyLinkedList_Get(s, index)
  IN  IF g.fault # "none" THEN [st |-> Panic(s, g.fault), err |-> NoError]
      ELSE IF g.err # NoError THEN [st |-> s, err |-> g.err]
      ELSE IF g.node = Nil THEN [st |-> Panic(s, "nil"), err |-> NoError]
      ELSE [st |-> [s EXCEPT !.value[g.node] = v], err |-> NoError]

\* The loop of Reverse: for range l.Size() { next := current.Next();
\* current.SetNext(prev); prev = current; current = next }
RECURSIVE CircularSinglyLinkedList_ReverseLoop(_, _, _, _)
CircularSinglyLinkedList_ReverseLoop(s, prv, current, k) ==
  IF k = 0 THEN [st |-> s, prev |-> prv]
  ELSE IF current = Nil THEN [st |-> Panic(s, "nil"), prev |-> prv]
  ELSE CircularSinglyLinkedList_ReverseLoop(
         [s EXCEPT !.next[current] = prv], current, s.next[current], k - 1)

\* Reverse that closes the ring the other way but leaves tail where it was.
CircularSinglyLinkedList_Reverse_KeepsTail(s) ==
  IF s.size = 0 \/ s.size = 1 THEN s
  ELSE LET hd == CircularSinglyLinkedList_Head(s)
           r == CircularSinglyLinkedList_ReverseLoop(s, Nil, hd, s.size)
       IN  IF r.st.fault # "none" THEN r.st
           ELSE IF hd = Nil THEN Panic(r.st, "nil")
           ELSE [r.st EXCEPT !.next[hd] = r.prev]

CircularSinglyLinkedList_Reverse(s) ==
  IF s.size = 0 \/ s.size = 1 THEN s
  ELSE LET hd == CircularSinglyLinkedList_Head(s)
           r == CircularSinglyLinkedList_ReverseLoop(s, Nil, hd, s.size)
       IN  IF r.st.fault # "none" THEN r.st
           ELSE IF hd = Nil THEN Panic(r.st, "nil")
           ELSE [r.st EXCEPT !.next[hd] = r.prev, !.tail = hd]

\* The nodes the loop of Reverse relinks, in order.
RECURSIVE CircularSinglyLinkedList_ReverseLoop_Examined(_, _, _, _)
CircularSinglyLinkedList_ReverseLoop_Examined(s, prv, current, k) ==
  IF k = 0 \/ current = Nil THEN <<>>
  ELSE <<current>> \o CircularSinglyLinkedList_ReverseLoop_Examined(
                        [s EXCEPT !.next[current] = prv], current,
                        s.next[current], k - 1)

CircularSinglyLinkedList_Reverse_Examined(s) ==
  IF s.size = 0 \/ s.size = 1 THEN <<>>
  ELSE CircularSinglyLinkedList_ReverseLoop_Examined(
         s, Nil, CircularSinglyLinkedList_Head(s), s.size)

CircularSinglyLinkedList_Contains(s, v) ==
  LET f == CircularSinglyLinkedList_Find(s, v)
  IN  [found |-> f.node # Nil, fault |-> f.fault]

CircularSinglyLinkedList_ForEach(s) ==
  IF s.size = 0 THEN [out |-> <<>>, fault |-> "none", seen |-> <<>>]
  ELSE VisitCounted(s, CircularSinglyLinkedList_Head(s), s.size)

CircularSinglyLinkedList_String(s) ==
  IF s.size = 0
  THEN [out |-> <<"C", "i", "r", "c", "u", "l", "a", "r", "S", "i", "n", "g", "l", "y", "L", "i", "n", "k", "e", "d", "L", "i", "s", "t", ":", " ", "[", "]">>,
        fault |-> "none", seen |-> <<>>]
  ELSE LET r == StringCounted(s, CircularSinglyLinkedList_Head(s),
                              <<" ", "-", ">", " ">>, 0)
       IN  [out |-> <<"C", "i", "r", "c", "u", "l", "a", "r", "S", "i", "n", "g", "l", "y", "L", "i", "n", "k", "e", "d", "L", "i", "s", "t", ":", " ">>
                      \o r.out,
            fault |-> r.fault, seen |-> r.seen]

(***************************************************************************)
(* DoublyLinkedList                                                        *)
(***************************************************************************)

DoublyLinkedList_Head(s) == s.head

DoublyLinkedList_Tail(s) == s.tail

DoublyLinkedList_Clear(s) == [s EXCEPT !.head = Nil, !.tail = Nil, !.size = 0]

DoublyLinkedList_Prepend(s, v) ==
  LET newNode == NewNode(s)
      a == NewDoublyLinkedNode(s, v)
  IN  IF a.size = 0
      THEN [a EXCEPT !.tail = newNode, !.head = newNode, !.size = a.size + 1]
      ELSE IF a.head = Nil THEN Panic([a EXCEPT !.next[newNode] = a.head], "nil")
      ELSE [a EXCEPT !.next[newNode] = a.head,
                     !.prev[a.head] = newNode,
                     !.head = newNode,
                     !.size = a.size + 1]

\* Append that puts the new element in front.
DoublyLinkedList_Append_AtFront(s, v) == DoublyLinkedList_Prepend(s, v)

DoublyLinkedList_Append(s, v) ==
  LET newNode == NewNode(s)
      a == NewDoublyLinkedNode(s, v)
  IN  IF a.size = 0
      THEN [a EXCEPT !.head = newNode, !.tail = newNode, !.size = a.size + 1]
      ELSE IF a.tail = Nil THEN Panic(a, "nil")
      ELSE [a EXCEPT !.next[a.tail] = newNode,
                     !.prev[newNode] = a.tail,
                     !.tail = newNode,
                     !.size = a.size + 1]

DoublyLinkedList_Find(s, v) == FindUntilNil(s, s.head, v, Fuel)

\* RemoveFirst that leaves the new head pointing back at the removed node.
DoublyLinkedList_RemoveFirst_KeepsPrev(s) ==
  IF s.size = 0 THEN s
  ELSE IF s.head = Nil THEN Panic(s, "nil")
  ELSE LET a == [s EXCEPT !.head = s.next[s.head], !.size = s.size - 1]
       IN  IF a.size = 0 THEN [a EXCEPT !.tail = Nil]
           ELSE IF a.head = Nil THEN Panic(a, "nil")
           ELSE a

DoublyLinkedList_RemoveFirst(s) ==
  IF s.size = 0 THEN s
  ELSE IF s.head = Nil THEN Panic(s, "nil")
  ELSE LET a == [s EXCEPT !.head = s.next[s.head], !.size = s.size - 1]
       IN  IF a.size = 0 THEN [a EXCEPT !.tail = Nil]
           ELSE IF a.head = Nil THEN Panic(a, "nil")
           ELSE [a EXCEPT !.prev[a.head] = Nil]

\* RemoveLast that forgets head when the only element goes.
DoublyLinkedList_RemoveLast_KeepsHead(s) ==
  IF s.size = 0 THEN s
  ELSE IF s.size = 1 THEN [s EXCEPT !.tail = Nil, !.size = 0]
  ELSE IF s.tail = Nil THEN Panic(s, "nil")
  ELSE LET a == [s EXCEPT !.tail = s.prev[s.tail]]
       IN  IF a.tail = Nil THEN Panic(a, "nil")
           ELSE [a EXCEPT !.next[a.tail] = Nil, !.size = a.size - 1]

DoublyLinkedList_RemoveLast(s) ==
  IF s.size = 0 THEN s
  ELSE IF s.size = 1 THEN [s EXCEPT !.head = Nil, !.tail = Nil, !.size = 0]
  ELSE IF s.tail = Nil THEN Panic(s, "nil")
  ELSE LET a == [s EXCEPT !.tail = s.prev[s.tail]]
       IN  IF a.tail = Nil THEN Panic(a, "nil")
           ELSE [a EXCEPT !.next[a.tail] = Nil, !.size = a.size - 1]

\* Remove without node.Next().SetPrev(node.Prev()): the successor keeps
\* pointing back at the node taken out.
DoublyLinkedList_Remove_KeepsPrev(s, v) ==
  LET f == DoublyLinkedList_Find(s, v)
      node == f.node
  IN  IF f.fault # "none" THEN Panic(s, f.fault)
      ELSE IF node = Nil THEN s
      ELSE IF node = s.head THEN DoublyLinkedList_RemoveFirst(s)
      ELSE IF node = s.tail THEN DoublyLinkedList_RemoveLast(s)
      ELSE IF s.prev[node] = Nil THEN Panic(s, "nil")
      ELSE [s EXCEPT !.next[s.prev[node]] = s.next[node],
                     !.size = s.size - 1]


DoublyLinkedList_Remove(s, v) ==
  LET f == DoublyLinkedList_Find(s, v)
      node == f.node
  IN  IF f.fault # "none" THEN Panic(s, f.fault)
      ELSE IF node = Nil THEN s
      ELSE IF node = s.head THEN DoublyLinkedList_RemoveFirst(s)
      ELSE IF node = s.tail THEN DoublyLinkedList_RemoveLast(s)
      ELSE IF s.prev[node] = Nil THEN Panic(s, "nil")
      ELSE LET a == [s EXCEPT !.next[s.prev[node]] = s.next[node]]
           IN  IF a.next[node] = Nil THEN Panic(a, "nil")
               ELSE [a EXCEPT !.prev[a.next[node]] = a.prev[node],
                              !.size = a.size - 1]

\* InsertAt that does not point the following node back at the new one.
DoublyLinkedList_InsertAt_KeepsPrev(s, index, v) ==
  IF index < 0 \/ index > s.size THEN [st |-> s, err |-> Errorf(index)]
  ELSE IF index = 0
       THEN [st |-> DoublyLinkedList_Prepend(s, v), err |-> NoError]
  ELSE IF index = s.size
       THEN [st |-> DoublyLinkedList_Append(s, v), err |-> NoError]
  ELSE LET newNode == NewNode(s)
           a == NewDoublyLinkedNode(s, v)
           w == Advance(a, a.head, index)
           current == w.node
       IN  IF w.fault # "none" \/ current = Nil
           THEN [st |-> Panic(a, "nil"), err |-> NoError]
           ELSE IF a.prev[current] = Nil
           THEN [st |-> Panic(a, "nil"), err |-> NoError]
           ELSE [st |-> [a EXCEPT !.next[a.prev[current]] = newNode,
                                  !.prev[newNode] = a.prev[current],
                                  !.next[newNode] = current,
                                  !.size = a.size + 1],
                 err |-> NoError]

DoublyLinkedList_InsertAt(s, index, v) ==
  IF index < 0 \/ index > s.size THEN [st |-> s, err |-> Errorf(index)]
  ELSE IF index = 0
       THEN [st |-> DoublyLinkedList_Prepend(s, v), err |-> NoError]
  ELSE IF index = s.size
       THEN [st |-> DoublyLinkedList_Append(s, v), err |-> NoError]
  ELSE LET newNode == NewNode(s)
           a == NewDoublyLinkedNode(s, v)
           w == Advance(a, a.head, index)
           current == w.node
       IN  IF w.fault # "none" \/ current = Nil
           THEN [st |-> Panic(a, "nil"), err |-> NoError]
           ELSE IF a.prev[current] = Nil
           THEN [st |-> Panic(a, "nil"), err |-> NoError]
           ELSE [st |-> [a EXCEPT !.next[a.prev[current]] = newNode,
                                  !.prev[newNode] = a.prev[current],
                                  !.next[newNode] = current,
                                  !.prev[current] = newNode,
                                  !.size = a.size + 1],
                 err |-> NoError]

\* Get whose range check lets index == Size() through.
DoublyLinkedList_Get_OffByOne(s, index) ==
  IF index < 0 \/ index > s.size
  THEN [node |-> Nil, err |-> Errorf(index), fault |-> "none"]
  ELSE LET w == Advance(s, s.head, index)
       IN  [node |-> w.node, err |-> NoError, fault |-> w.fault]


DoublyLinkedList_Get(s, index) ==
  IF index < 0 \/ index >= s.size
  THEN [node |-> Nil, err |-> Errorf(index), fault |-> "none"]
  ELSE LET w == Advance(s, s.head, index)
       IN  [node |-> w.node, err |-> NoError, fault |-> w.fault]

DoublyLinkedList_Set(s, index, v) ==
  LET g == DoublyLinkedList_Get(s, index)
  IN  IF g.fault # "none" THEN [st |-> Panic(s, g.fault), err |-> NoError]
      ELSE IF g.err # NoError THEN [st |-> s, err |-> g.err]
      ELSE IF g.node = Nil THEN [st |-> Panic(s, "nil"), err |-> NoError]
      ELSE [st |-> [s EXCEPT !.value[g.node] = v], err |-> NoError]

\* The loop of Reverse: for current != nil { next := current.Next();
\* current.SetNext(prev); current.SetPrev(next); prev = current;
\* current = next }
RECURSIVE DoublyLinkedList_ReverseLoop(_, _, _, _)
DoublyLinkedList_ReverseLoop(s, prv, current, fuel) ==
  IF current = Nil THEN [st |-> s, prev |-> prv]
  ELSE IF fuel = 0 THEN [st |-> Panic(s, "loop"), prev |-> prv]
  ELSE DoublyLinkedList_ReverseLoop(
         [s EXCEPT !.next[current] = prv, !.prev[current] = s.next[current]],
         current, s.next[current], fuel - 1)

\* Reverse that relinks the nodes but leaves head on the old first node.
DoublyLinkedList_Reverse_KeepsHead(s) ==
  LET a == [s EXCEPT !.tail = s.head]
      r == DoublyLinkedList_ReverseLoop(a, Nil, s.head, Fuel + Fuel)
  IN  r.st

DoublyLinkedList_Reverse(s) ==
  LET a == [s EXCEPT !.tail = s.head]
      r == DoublyLinkedList_ReverseLoop(a, Nil, s.head, Fuel + Fuel)
  IN  IF r.st.fault # "none" THEN r.st
      ELSE [r.st EXCEPT !.head = r.prev]

DoublyLinkedList_ForEach(s) == VisitUntilNil(s, s.head, Fuel)

DoublyLinkedList_String(s) ==
  IF s.size = 0
  THEN [out |-> <<"D", "o", "u", "b", "l", "y", "L", "i", "n", "k", "e", "d", "L", "i", "s", "t", ":", " ", "[", "]">>,
        fault |-> "none"]
  ELSE LET r == StringUntilNoNext(s, s.head,
                                  <<" ", "U+2194", " ">>, Fuel)
       IN  [out |-> <<"D", "o", "u", "b", "l", "y", "L", "i", "n", "k", "e", "d", "L", "i", "s", "t", ":", " ">>
                      \o r.out,
            fault |-> r.fault]

\* ToSlice that starts at the second node.
DoublyLinkedList_ToSlice_SkipsHead(s) ==
  IF s.head = Nil THEN [out |-> <<>>, fault |-> "none"]
  ELSE VisitUntilNil(s, s.next[s.head], Fuel)

\* result := make([]T, 0, l.Size()); the loop appends each value.
DoublyLinkedList_ToSlice(s) == VisitUntilNil(s, s.head, Fuel)

(***************************************************************************)
(* CircularDoublyLinkedList                                                *)
(***************************************************************************)

CircularDoublyLinkedList_Tail(s) == s.tail

CircularDoublyLinkedList_Head(s) ==
  IF s.tail = Nil THEN Nil ELSE s.next[s.tail]

CircularDoublyLinkedList_Clear(s) == [s EXCEPT !.tail = Nil, !.size = 0]

\* Prepend that does not point the old head back at the new node.
CircularDoublyLinkedList_Prepend_KeepsHeadPrev(s, v) ==
  LET newNode == NewNode(s)
      a == NewDoublyLinkedNode(s, v)
      hd == CircularDoublyLinkedList_Head(a)
  IN  IF a.size = 0
      THEN [a EXCEPT !.next[newNode] = newNode, !.prev[newNode] = newNode,
                     !.tail = newNode, !.size = a.size + 1]
      ELSE IF hd = Nil
      THEN Panic([a EXCEPT !.next[newNode] = hd, !.prev[newNode] = a.tail],
                 "nil")
      ELSE [a EXCEPT !.next[newNode] = hd,
                     !.prev[newNode] = a.tail,
                     !.next[a.tail] = newNode,
                     !.size = a.size + 1]

CircularDoublyLinkedList_Prepend(s, v) ==
  LET newNode == NewNode(s)
      a == NewDoublyLinkedNode(s, v)
      hd == CircularDoublyLinkedList_Head(a)
  IN  IF a.size = 0
      THEN [a EXCEPT !.next[newNode] = newNode, !.prev[newNode] = newNode,
                     !.tail = newNode, !.size = a.size + 1]
      ELSE IF hd = Nil
      THEN Panic([a EXCEPT !.next[newNode] = hd, !.prev[newNode] = a.tail],
                 "nil")
      ELSE [a EXCEPT !.next[newNode] = hd,
                     !.prev[newNode] = a.tail,
                     !.prev[hd] = newNode,
                     !.next[a.tail] = newNode,
                     !.size = a.size + 1]

CircularDoublyLinkedList_Append(s, v) ==
  LET a == CircularDoublyLinkedList_Prepend(s, v)
  IN  IF a.fault # "none" THEN a
      ELSE IF a.tail = Nil THEN Panic(a, "nil")
      ELSE [a EXCEPT !.tail = a.next[a.tail]]

\* for range l.Size() { if current.Value() == value { return current }
\* current = current.Next() }
\* seen lists the nodes whose value the loop compared, in order.
RECURSIVE FindCounted(_, _, _, _)
FindCounted(s, current, v, k) ==
  IF k = 0 THEN [node |-> Nil, fault |-> "none", seen |-> <<>>]
  ELSE IF current = Nil THEN [node |-> Nil, fault |-> "nil", seen |-> <<>>]
  ELSE IF s.value[current] = v
       THEN [node |-> current, fault |-> "none", seen |-> <<current>>]
  ELSE LET r == FindCounted(s, s.next[current], v, k - 1)
       IN  [r EXCEPT !.seen = <<current>> \o r.seen]

CircularDoublyLinkedList_Find(s, v) ==
  IF s.size = 0 THEN [node |-> Nil, fault |-> "none", seen |-> <<>>]
  ELSE FindCounted(s, CircularDoublyLinkedList_Head(s), v, s.size)

\* RemoveFirst without l.Tail().next = newHead: the tail keeps pointing at
\* the node taken out.
CircularDoublyLinkedList_RemoveFirst_KeepsHead(s) ==
  IF s.size = 0 THEN s
  ELSE IF s.size = 1 THEN CircularDoublyLinkedList_Clear(s)
  ELSE LET hd == CircularDoublyLinkedList_Head(s)
       IN  IF hd = Nil THEN Panic(s, "nil")
           ELSE LET newHead == s.next[hd]
                IN  IF newHead = Nil THEN Panic(s, "nil")
                    ELSE [s EXCEPT !.prev[newHead] = s.tail,
                                   !.size = s.size - 1]


CircularDoublyLinkedList_RemoveFirst(s) ==
  IF s.size = 0 THEN s
  ELSE IF s.size = 1 THEN CircularDoublyLinkedList_Clear(s)
  ELSE LET hd == CircularDoublyLinkedList_Head(s)
       IN  IF hd = Nil THEN Panic(s, "nil")
           ELSE LET newHead == s.next[hd]
                    a == [s EXCEPT !.next[s.tail] = newHead]
                IN  IF newHead = Nil THEN Panic(a, "nil")
                    ELSE [a EXCEPT !.prev[newHead] = a.tail,
                                   !.size = a.size - 1]

CircularDoublyLinkedList_RemoveLast(s) ==
  IF s.size = 0 THEN s
  ELSE IF s.size = 1 THEN CircularDoublyLinkedList_Clear(s)
  ELSE IF s.tail = Nil THEN Panic(s, "nil")
  ELSE LET prv == s.prev[s.tail]
       IN  IF prv = Nil THEN Panic(s, "nil")
           ELSE LET a == [s EXCEPT !.next[prv] = CircularDoublyLinkedList_Head(s)]
                    hd == CircularDoublyLinkedList_Head(a)
                IN  IF hd = Nil THEN Panic(a, "nil")
                    ELSE [a EXCEPT !.prev[hd] = prv, !.tail = prv,
                                   !.size = a.size - 1]

\* The loop of Remove: for range l.Size() { ... current = current.Next() }
RECURSIVE CircularDoublyLinkedList_RemoveLoop(_, _, _, _)
CircularDoublyLinkedList_RemoveLoop(s, current, v, k) ==
  IF k = 0 THEN s
  ELSE IF current = Nil THEN Panic(s, "nil")
  ELSE IF s.value[current] = v
       THEN IF s.size = 1 THEN CircularDoublyLinkedList_Clear(s)
            ELSE LET prv == s.prev[current]
                     nxt == s.next[current]
                 IN  IF prv = Nil THEN Panic(s, "nil")
                     ELSE LET a == [s EXCEPT !.next[prv] = nxt]
                          IN  IF nxt = Nil THEN Panic(a, "nil")
                              ELSE LET b == [a EXCEPT !.prev[nxt] = prv]
                                       c == IF current = b.tail
                                            THEN [b EXCEPT !.tail = prv]
                                            ELSE b
                                   IN  [c EXCEPT !.size = c.size - 1]
  ELSE CircularDoublyLinkedList_RemoveLoop(s, s.next[current], v, k - 1)

CircularDoublyLinkedList_Remove(s, v) ==
  IF s.size = 0 THEN s
  ELSE CircularDoublyLinkedList_RemoveLoop(
         s, CircularDoublyLinkedList_Head(s), v, s.size)

\* The nodes whose value the loop of Remove compares, in order.
RECURSIVE CircularDoublyLinkedList_RemoveLoop_Examined(_, _, _, _)
CircularDoublyLinkedList_RemoveLoop_Examined(s, current, v, k) ==
  IF k = 0 \/ current = Nil THEN <<>>
  ELSE IF s.value[current] = v THEN <<current>>
  ELSE <<current>> \o CircularDoublyLinkedList_RemoveLoop_Examined(
                        s, s.next[current], v, k - 1)

CircularDoublyLinkedList_Remove_Examined(s, v) ==
  IF s.size = 0 THEN <<>>
  ELSE CircularDoublyLinkedList_RemoveLoop_Examined(
         s, CircularDoublyLinkedList_Head(s), v, s.size)

\* InsertAt whose range check lets index == Size()+1 through.
CircularDoublyLinkedList_InsertAt_LateCheck(s, index, v) ==
  IF index < 0 \/ index > s.size + 1 THEN [st |-> s, err |-> Errorf(index)]
  ELSE IF index = 0
       THEN [st |-> CircularDoublyLinkedList_Prepend(s, v), err |-> NoError]
  ELSE IF index = s.size
       THEN [st |-> CircularDoublyLinkedList_Append(s, v), err |-> NoError]
  ELSE LET w == Advance(s, CircularDoublyLinkedList_Head(s), index)
           current == w.node
       IN  IF w.fault # "none" \/ current = Nil \/ ~HasRoom(s)
           THEN [st |-> Panic(s, "nil"), err |-> NoError]
           ELSE IF s.prev[current] = Nil
           THEN [st |-> Panic(s, "nil"), err |-> NoError]
           ELSE LET newNode == NewNode(s)
                    a == NewDoublyLinkedNode(s, v)
                IN  [st |-> [a EXCEPT !.next[a.prev[current]] = newNode,
                                      !.prev[newNode] = a.prev[current],
                                      !.next[newNode] = current,
                                      !.prev[current] = newNode,
                                      !.size = a.size + 1],
                     err |-> NoError]


CircularDoublyLinkedList_InsertAt(s, index, v) ==
  IF index < 0 \/ index > s.size THEN [st |-> s, err |-> Errorf(index)]
  ELSE IF index = 0
       THEN [st |-> CircularDoublyLinkedList_Prepend(s, v), err |-> NoError]
  ELSE IF index = s.size
       THEN [st |-> CircularDoublyLinkedList_Append(s, v), err |-> NoError]
  ELSE LET w == Advance(s, CircularDoublyLinkedList_Head(s), index)
           current == w.node
           newNode == NewNode(s)
           a == NewDoublyLinkedNode(s, v)
       IN  IF w.fault # "none" THEN [st |-> Panic(s, "nil"), err |-> NoError]
           ELSE IF current = Nil THEN [st |-> Panic(a, "nil"), err |-> NoError]
           ELSE IF a.prev[current] = Nil
           THEN [st |-> Panic(a, "nil"), err |-> NoError]
           ELSE [st |-> [a EXCEPT !.next[a.prev[current]] = newNode,
                                  !.prev[newNode] = a.prev[current],
                                  !.next[newNode] = current,
                                  !.prev[current] = newNode,
                                  !.size = a.size + 1],
                 err |-> NoError]

CircularDoublyLinkedList_Get(s, index) ==
  IF index < 0 \/ index >= s.size
  THEN [node |-> Nil, err |-> Errorf(index), fault |-> "none"]
  ELSE LET w == Advance(s, CircularDoublyLinkedList_Head(s), index)
       IN  [node |-> w.node, err |-> NoError, fault |-> w.fault]

CircularDoublyLinkedList_Set(s, index, v) ==
  LET g == CircularDoublyLinkedList_Get(s, index)
  IN  IF g.fault # "none" THEN [st |-> Panic(s, g.fault), err |-> NoError]
      ELSE IF g.err # NoError THEN [st |-> s, err |-> g.err]
      ELSE IF g.node = Nil THEN [st |-> Panic(s, "nil"), err |-> NoError]
      ELSE [st |-> [s EXCEPT !.value[g.node] = v], err |-> NoError]

\* The loop of Reverse: for range l.size {
\* current.next, current.prev = current.Prev(), current.Next();
\* current = current.Prev() }
RECURSIVE CircularDoublyLinkedList_ReverseLoop(_, _, _)
CircularDoublyLinkedList_ReverseLoop(s, current, k) ==
  IF k = 0 THEN s
  ELSE IF current = Nil THEN Panic(s, "nil")
  ELSE LET a == [s EXCEPT !.next[current] = s.prev[current],
                          !.prev[current] = s.next[current]]
       IN  CircularDoublyLinkedList_ReverseLoop(a, a.prev[current], k - 1)

CircularDoublyLinkedList_Reverse(s) ==
  IF s.size = 0 \/ s.size = 1 THEN s
  ELSE LET originalHead == CircularDoublyLinkedList_Head(s)
           r == CircularDoublyLinkedList_ReverseLoop(s, originalHead, s.size)
       IN  IF r.fault # "none" THEN r
           ELSE [r EXCEPT !.tail = originalHead]

\* The nodes the loop of Reverse relinks, in order.
RECURSIVE CircularDoublyLinkedList_ReverseLoop_Examined(_, _, _)
CircularDoublyLinkedList_ReverseLoop_Examined(s, current, k) ==
  IF k = 0 \/ current = Nil THEN <<>>
  ELSE LET a == [s EXCEPT !.next[current] = s.prev[current],
                          !.prev[current] = s.next[current]]
       IN  <<current>> \o CircularDoublyLinkedList_ReverseLoop_Examined(
                            a, a.prev[current], k - 1)

CircularDoublyLinkedList_Reverse_Examined(s) ==
  IF s.size = 0 \/ s.size = 1 THEN <<>>
  ELSE CircularDoublyLinkedList_ReverseLoop_Examined(
         s, CircularDoublyLinkedList_Head(s), s.size)

CircularDoublyLinkedList_Contains(s, v) ==
  LET f == CircularDoublyLinkedList_Find(s, v)
  IN  [found |-> f.node # Nil, fault |-> f.fault]

\* ForEach that starts its Size() steps at the tail instead of the head.
CircularDoublyLinkedList_ForEach_FromTail(s) ==
  IF s.size = 0 THEN [out |-> <<>>, fault |-> "none", seen |-> <<>>]
  ELSE VisitCounted(s, CircularDoublyLinkedList_Tail(s), s.size)

CircularDoublyLinkedList_ForEach(s) ==
  IF s.size = 0 THEN [out |-> <<>>, fault |-> "none", seen |-> <<>>]
  ELSE VisitCounted(s, CircularDoublyLinkedList_Head(s), s.size)

CircularDoublyLinkedList_String(s) ==
  IF s.size = 0
  THEN [out |-> <<"C", "i", "r", "c", "u", "l", "a", "r", "D", "o", "u", "b", "l", "y", "L", "i", "n", "k", "e", "d", "L", "i", "s", "t", ":", " ", "[", "]">>,
        fault |-> "none", seen |-> <<>>]
  ELSE LET r == StringCounted(s, CircularDoublyLinkedList_Head(s),
                              <<" ", "<", "-", ">", " ">>, 0)
       IN  [out |-> <<"C", "i", "r", "c", "u", "l", "a", "r", "D", "o", "u", "b", "l", "y", "L", "i", "n", "k", "e", "d", "L", "i", "s", "t", ":", " ">>
                      \o r.out,
            fault |-> r.fault, seen |-> r.seen]

(***************************************************************************)
(* The list under test is one of the four containers; every operation is   *)
(* the method of that container.                                          *)
(***************************************************************************)

List_Head(s) ==
  CASE kind = "SinglyLinkedList" -> SinglyLinkedList_Head(s)
    [] kind = "CircularSinglyLinkedList" -> CircularSinglyLinkedList_Head(s)
    [] kind = "DoublyLinkedList" -> DoublyLinkedList_Head(s)
    [] kind = "CircularDoublyLinkedList" -> CircularDoublyLinkedList_Head(s)

List_Tail(s) ==
  CASE kind = "SinglyLinkedList" -> SinglyLinkedList_Tail(s)
    [] kind = "CircularSinglyLinkedList" -> CircularSinglyLinkedList_Tail(s)
    [] kind = "DoublyLinkedList" -> DoublyLinkedList_Tail(s)
    [] kind = "CircularDoublyLinkedList" -> CircularDoublyLinkedList_Tail(s)

List_Clear(s) ==
  CASE kind = "SinglyLinkedList" -> SinglyLinkedList_Clear(s)
    [] kind = "CircularSinglyLinkedList" -> CircularSinglyLinkedList_Clear(s)
    [] kind = "DoublyLinkedList" -> DoublyLinkedList_Clear(s)
    [] kind = "CircularDoublyLinkedList" -> CircularDoublyLinkedList_Clear(s)

List_Prepend(s, v) ==
  CASE kind = "SinglyLinkedList" -> SinglyLinkedList_Prepend(s, v)
    [] kind = "CircularSinglyLinkedList" -> CircularSinglyLinkedList_Prepend(s, v)
    [] kind = "DoublyLinkedList" -> DoublyLinkedList_Prepend(s, v)
    [] kind = "CircularDoublyLinkedList" -> CircularDoublyLinkedList_Prepend(s, v)

List_Append(s, v) ==
  CASE kind = "SinglyLinkedList" -> SinglyLinkedList_Append(s, v)
    [] kind = "CircularSinglyLinkedList" -> CircularSinglyLinkedList_Append(s, v)
    [] kind = "DoublyLinkedList" -> DoublyLinkedList_Append(s, v)
    [] kind = "CircularDoublyLinkedList" -> CircularDoublyLinkedList_Append(s, v)

List_Find(s, v) ==
  CASE kind = "SinglyLinkedList" -> SinglyLinkedList_Find(s, v)
    [] kind = "CircularSinglyLinkedList" -> CircularSinglyLinkedList_Find(s, v)
    [] kind = "DoublyLinkedList" -> DoublyLinkedList_Find(s, v)
    [] kind = "CircularDoublyLinkedList" -> CircularDoublyLinkedList_Find(s, v)

List_RemoveFirst(s) ==
  CASE kind = "SinglyLinkedList" -> SinglyLinkedList_RemoveFirst(s)
    [] kind = "CircularSinglyLinkedList" -> CircularSinglyLinkedList_RemoveFirst(s)
    [] kind = "DoublyLinkedList" -> DoublyLinkedList_RemoveFirst(s)
    [] kind = "CircularDoublyLinkedList" -> CircularDoublyLinkedList_RemoveFirst(s)

List_RemoveLast(s) ==
  CASE kind = "SinglyLinkedList" -> SinglyLinkedList_RemoveLast(s)
    [] kind = "CircularSinglyLinkedList" -> CircularSinglyLinkedList_RemoveLast(s)
    [] kind = "DoublyLinkedList" -> DoublyLinkedList_RemoveLast(s)
    [] kind = "CircularDoublyLinkedList" -> CircularDoublyLinkedList_RemoveLast(s)

List_Remove(s, v) ==
  CASE kind = "SinglyLinkedList" -> SinglyLinkedList_Remove(s, v)
    [] kind = "CircularSinglyLinkedList" -> CircularSinglyLinkedList_Remove(s, v)
    [] kind = "DoublyLinkedList" -> DoublyLinkedList_Remove(s, v)
    [] kind = "CircularDoublyLinkedList" -> CircularDoublyLinkedList_Remove(s, v)

List_InsertAt(s, index, v) ==
  CASE kind = "SinglyLinkedList" -> SinglyLinkedList_InsertAt(s, index, v)
    [] kind = "CircularSinglyLinkedList" -> CircularSinglyLinkedList_InsertAt(s, index, v)
    [] kind = "DoublyLinkedList" -> DoublyLinkedList_InsertAt(s, index, v)
    [] kind = "CircularDoublyLinkedList" -> CircularDoublyLinkedList_InsertAt(s, index, v)

List_Get(s, index) ==
  CASE kind = "SinglyLinkedList" -> SinglyLinkedList_Get(s, index)
    [] kind = "CircularSinglyLinkedList" -> CircularSinglyLinkedList_Get(s, index)
    [] kind = "DoublyLinkedList" -> DoublyLinkedList_Get(s, index)
    [] kind = "CircularDoublyLinkedList" -> CircularDoublyLinkedList_Get(s, index)

List_Set(s, index, v) ==
  CASE kind = "SinglyLinkedList" -> SinglyLinkedList_Set(s, index, v)
    [] kind = "CircularSinglyLinkedList" -> CircularSinglyLinkedList_Set(s, index, v)
    [] kind = "DoublyLinkedList" -> DoublyLinkedList_Set(s, index, v)
    [] kind = "CircularDoublyLinkedList" -> CircularDoublyLinkedList_Set(s, index, v)

List_Reverse(s) ==
  CASE kind = "SinglyLinkedList" -> SinglyLinkedList_Reverse(s)
    [] kind = "CircularSinglyLinkedList" -> CircularSinglyLinkedList_Reverse(s)
    [] kind = "DoublyLinkedList" -> DoublyLinkedList_Reverse(s)
    [] kind = "CircularDoublyLinkedList" -> CircularDoublyLinkedList_Reverse(s)

\* The methods each container type declares.
CommonMethods ==
  {"Head", "Tail", "Size", "IsEmpty", "Clear", "Prepend", "Append", "Find",
   "RemoveFirst", "RemoveLast", "Remove", "String", "InsertAt", "Get", "Set",
   "Reverse", "ForEach"}

Methods(k) ==
  CASE k = "SinglyLinkedList" -> CommonMethods \cup {"Contains"}
    [] k = "CircularSinglyLinkedList" -> CommonMethods \cup {"Contains"}
    [] k = "DoublyLinkedList" -> CommonMethods \cup {"ToSlice"}
    [] k = "CircularDoublyLinkedList" -> CommonMethods \cup {"Contains"}

\* DoublyLinkedList declares no Contains.
List_Contains(s, v) ==
  CASE kind = "SinglyLinkedList" -> SinglyLinkedList_Contains(s, v)
    [] kind = "CircularSinglyLinkedList" ->
         CircularSinglyLinkedList_Contains(s, v)
    [] kind = "CircularDoublyLinkedList" ->
         CircularDoublyLinkedList_Contains(s, v)

List_ForEach(s) ==
  CASE kind = "SinglyLinkedList" -> SinglyLinkedList_ForEach(s)
    [] kind = "CircularSinglyLinkedList" -> CircularSinglyLinkedList_ForEach(s)
    [] kind = "DoublyLinkedList" -> DoublyLinkedList_ForEach(s)
    [] kind = "CircularDoublyLinkedList" -> CircularDoublyLinkedList_ForEach(s)

List_String(s) ==
  CASE kind = "SinglyLinkedList" -> SinglyLinkedList_String(s)
    [] kind = "CircularSinglyLinkedList" -> CircularSinglyLinkedList_String(s)
    [] kind = "DoublyLinkedList" -> DoublyLinkedList_String(s)
    [] kind = "CircularDoublyLinkedList" -> CircularDoublyLinkedList_String(s)

\* Only DoublyLinkedList declares ToSlice.
List_ToSlice(s) ==
  CASE kind = "DoublyLinkedList" -> DoublyLinkedList_ToSlice(s)

\* Size() and IsEmpty() are the same in the four containers.
List_Size(s) == s.size

List_IsEmpty(s) == List_Size(s) = 0

(***************************************************************************)
(* State machine: a freshly constructed list and the calls made on it.     *)
(* A call runs to completion in one step and leaves in `last` its name,    *)
(* arguments and results and the list as it was when the call was made.    *)
(* The caller then takes the results (Return) before it makes the next     *)
(* call; the garbage collector has run by then.                            *)
(***************************************************************************)

Call(op, index, v, err, node) ==
  [op |-> op, index |-> index, value |-> v, err |-> err, node |-> node,
   found |-> FALSE, count |-> 0, out |-> <<>>, slice |-> last.slice,
   pre |-> Cur]

Install(r) ==
  /\ head' = r.head
  /\ tail' = r.tail
  /\ size' = r.size
  /\ next' = r.next
  /\ prev' = r.prev
  /\ value' = r.value
  /\ fault' = r.fault
  /\ kind' = kind
  /\ other' = other

\* No call is running and the last one did not panic or hang.
Ready == fault = "none" /\ last.op \in {"New", "idle"}

Init ==
  /\ kind \in Kinds
  /\ head = Nil
  /\ tail = Nil
  /\ size = 0
  /\ next = [n \in Nodes |-> Nil]
  /\ prev = [n \in Nodes |-> Nil]
  /\ value = [n \in Nodes |-> 0]
  /\ fault = "none"
  /\ other = [head |-> Nil, tail |-> Nil, size |-> 0]
  /\ last = [op |-> "New", index |-> 0, value |-> 0, err |-> NoError,
             node |-> Nil, found |-> FALSE, count |-> 0, out |-> <<>>,
             slice |-> <<>>,
             pre |-> [head |-> Nil, tail |-> Nil, size |-> 0,
                      next |-> [n \in Nodes |-> Nil],
                      prev |-> [n \in Nodes |-> Nil],
                      value |-> [n \in Nodes |-> 0],
                      fault |-> "none", roots |-> {}]]

DoPrepend(v) ==
  /\ Ready
  /\ HasRoom(Cur)
  /\ Install(List_Prepend(Cur, v))
  /\ last' = Call("Prepend", 0, v, NoError, Nil)

DoAppend(v) ==
  /\ Ready
  /\ HasRoom(Cur)
  /\ Install(List_Append(Cur, v))
  /\ last' = Call("Append", 0, v, NoError, Nil)

DoInsertAt(index, v) ==
  /\ Ready
  /\ index <= size + 1
  /\ index < 0 \/ index > size \/ HasRoom(Cur)
  /\ LET r == List_InsertAt(Cur, index, v)
     IN  /\ Install(r.st)
         /\ last' = Call("InsertAt", index, v, r.err, Nil)

DoGet(index) ==
  /\ Ready
  /\ index <= size + 1
  /\ LET g == List_Get(Cur, index)
     IN  /\ Install(Panic(Cur, g.fault))
         /\ last' = Call("Get", index, 0, g.err, g.node)

DoSet(index, v) ==
  /\ Ready
  /\ index <= size + 1
  /\ LET r == List_Set(Cur, index, v)
     IN  /\ Install(r.st)
         /\ last' = Call("Set", index, v, r.err, Nil)

DoFind(v) ==
  /\ Ready
  /\ LET f == List_Find(Cur, v)
     IN  /\ Install(Panic(Cur, f.fault))
         /\ last' = Call("Find", 0, v, NoError, f.node)

DoRemove(v) ==
  /\ Ready
  /\ Install(List_Remove(Cur, v))
  /\ last' = Call("Remove", 0, v, NoError, Nil)

DoRemoveFirst ==
  /\ Ready
  /\ Install(List_RemoveFirst(Cur))
  /\ last' = Call("RemoveFirst", 0, 0, NoError, Nil)

DoRemoveLast ==
  /\ Ready
  /\ Install(List_RemoveLast(Cur))
  /\ last' = Call("RemoveLast", 0, 0, NoError, Nil)

DoReverse ==
  /\ Ready
  /\ Install(List_Reverse(Cur))
  /\ last' = Call("Reverse", 0, 0, NoError, Nil)

DoClear ==
  /\ Ready
  /\ Install(List_Clear(Cur))
  /\ last' = Call("Clear", 0, 0, NoError, Nil)

\* Head() that moves on round the list each time it is asked.
DoHead_Advances ==
  /\ Ready
  /\ Install([Cur EXCEPT !.tail = IF tail = Nil THEN Nil ELSE next[tail],
                         !.head = IF head = Nil THEN Nil ELSE next[head]])
  /\ last' = [Call("Head", 0, 0, NoError, Nil) EXCEPT !.node = List_Head(Cur)]

DoHead ==
  /\ Ready
  /\ Install(Cur)
  /\ last' = [Call("Head", 0, 0, NoError, Nil) EXCEPT !.node = List_Head(Cur)]

DoTail ==
  /\ Ready
  /\ Install(Cur)
  /\ last' = [Call("Tail", 0, 0, NoError, Nil) EXCEPT !.node = List_Tail(Cur)]

DoSize ==
  /\ Ready
  /\ Install(Cur)
  /\ last' = [Call("Size", 0, 0, NoError, Nil) EXCEPT !.count = List_Size(Cur)]

DoIsEmpty ==
  /\ Ready
  /\ Install(Cur)
  /\ last' = [Call("IsEmpty", 0, 0, NoError, Nil)
                EXCEPT !.found = List_IsEmpty(Cur)]

DoContains(v) ==
  /\ Ready
  /\ "Contains" \in Methods(kind)
  /\ LET c == List_Contains(Cur, v)
     IN  /\ Install(Panic(Cur, c.fault))
         /\ last' = [Call("Contains", 0, v, NoError, Nil)
                       EXCEPT !.found = c.found]

\* The action records the values it is called with, in call order.
DoForEach ==
  /\ Ready
  /\ LET f == List_ForEach(Cur)
     IN  /\ Install(Panic(Cur, f.fault))
         /\ last' = [Call("ForEach", 0, 0, NoError, Nil) EXCEPT !.out = f.out]

DoString ==
  /\ Ready
  /\ LET f == List_String(Cur)
     IN  /\ Install(Panic(Cur, f.fault))
         /\ last' = [Call("String", 0, 0, NoError, Nil) EXCEPT !.out = f.out]

DoToSlice ==
  /\ Ready
  /\ "ToSlice" \in Methods(kind)
  /\ LET f == List_ToSlice(Cur)
     IN  /\ Install(Panic(Cur, f.fault))
         /\ last' = [Call("ToSlice", 0, 0, NoError, Nil) EXCEPT !.out = f.out]

\* The caller has the results of the call; the nodes the call dropped are
\* reclaimed.  A slice returned by ToSlice stays with the caller over the
\* next call on the list.
Return ==
  /\ fault = "none"
  /\ last.op \notin {"New", "idle"}
  /\ Install(Collect(Cur))
  /\ last' = [op |-> "idle", index |-> 0, value |-> 0, err |-> NoError,
              node |-> Nil, found |-> FALSE, count |-> 0, out |-> <<>>,
              slice |-> IF last.op = "ToSlice" THEN <<last.out>> ELSE <<>>,
              pre |-> Collect(Cur)]

Next ==
  \/ \E v \in Values : DoPrepend(v)
  \/ \E v \in Values : DoAppend(v)
  \/ \E index \in Indices, v \in Values : DoInsertAt(index, v)
  \/ \E index \in Indices : DoGet(index)
  \/ \E index \in Indices, v \in Values : DoSet(index, v)
  \/ \E v \in Values : DoFind(v)
  \/ \E v \in Values : DoRemove(v)
  \/ DoRemoveFirst
  \/ DoRemoveLast
  \/ DoReverse
  \/ DoClear
  \/ \E v \in Values : DoContains(v)
  \/ DoForEach
  \/ DoString
  \/ DoToSlice
  \/ DoHead
  \/ DoTail
  \/ DoSize
  \/ DoIsEmpty
  \/ Return

Spec == Init /\ [][Next]_vars

(***************************************************************************)
(* Two lists.  The program holds two lists of the same type; between calls *)
(* it turns from one to the other.  The list in head, tail and size is the *)
(* one the next call is made on.                                           *)
(***************************************************************************)

\* The second list, seen in heap s.
OtherIn(s) ==
  [s EXCEPT !.head = other.head, !.tail = other.tail, !.size = other.size,
            !.roots = {}]

Switch ==
  /\ Ready
  /\ head' = other.head
  /\ tail' = other.tail
  /\ size' = other.size
  /\ other' = [head |-> head, tail |-> tail, size |-> size]
  /\ UNCHANGED <<kind, next, prev, value, fault>>
  /\ last' = [op |-> "idle", index |-> 0, value |-> 0, err |-> NoError,
              node |-> Nil, found |-> FALSE, count |-> 0, out |-> <<>>,
              slice |-> <<>>,
              pre |-> [Cur EXCEPT !.head = other.head, !.tail = other.tail,
                                  !.size = other.size,
                                  !.roots = {head, tail} \ {Nil}]]

NextPair ==
  \/ Next
  \/ Switch

SpecPair == Init /\ [][NextPair]_vars

(***************************************************************************)
(* What a caller observes of a list by walking its nodes.                  *)
(***************************************************************************)

\* The first k nodes met from n along next, stopping at nil.
RECURSIVE NodesFrom(_, _, _)
NodesFrom(s, n, k) ==
  IF n = Nil \/ k <= 0 THEN <<>>
  ELSE <<n>> \o NodesFrom(s, s.next[n], k - 1)

\* The nodes met from n along next until the walk is back at hd (or at nil).
RECURSIVE RingFrom(_, _, _, _)
RingFrom(s, n, hd, k) ==
  IF n = Nil \/ k <= 0 THEN <<>>
  ELSE IF s.next[n] = hd THEN <<n>>
  ELSE <<n>> \o RingFrom(s, s.next[n], hd, k - 1)

\* The nodes of the list from Head() to its natural stopping point.
Elements(s) ==
  IF kind \in Circular
  THEN RingFrom(s, List_Head(s), List_Head(s), MaxNodes + 1)
  ELSE NodesFrom(s, List_Head(s), MaxNodes + 1)

RECURSIVE ValuesOf(_, _)
ValuesOf(s, nodes) ==
  IF nodes = <<>> THEN <<>>
  ELSE <<s.value[Head(nodes)]>> \o ValuesOf(s, Tail(nodes))

\* The value sequence of the list, head to tail.
Contents(s) == ValuesOf(s, Elements(s))

Distinct(seq) ==
  \A i, j \in 1..Len(seq) : i # j => seq[i] # seq[j]

Linear == Kinds \ Circular

(***************************************************************************)
(* Structural invariants                                                   *)
(***************************************************************************)

\* C1: in SinglyLinkedList and DoublyLinkedList, after any sequence of list
\* operations, following next from Head() visits exactly Size() distinct
\* nodes and then reaches nil; when Size() > 0 the last node visited is
\* Tail() and Tail().Next() is nil.
C1_LinearChainHasSizeNodes ==
  (kind \in Linear /\ fault = "none") =>
    LET walk == NodesFrom(Cur, List_Head(Cur), size + 1)
    IN  /\ Len(walk) = size
        /\ Distinct(walk)
        /\ size > 0 => /\ walk[size] = List_Tail(Cur)
                       /\ next[List_Tail(Cur)] = Nil

C1_Witness ==
  /\ kind \in Linear
  /\ fault = "none"
  /\ last.op = "RemoveLast"
  /\ last.pre.size = 3
  /\ size = 2

\* C2: in the two circular lists, whenever Size() > 0 the nodes form one
\* closed ring of exactly Size() distinct nodes: from Head() (= Tail().Next())
\* along next, Tail() is reached after Size()-1 steps and Head() again after
\* exactly Size() steps and not earlier; no next link of the ring is nil.
C2_RingHasSizeNodes ==
  (kind \in Circular /\ fault = "none" /\ size > 0) =>
    /\ List_Tail(Cur) # Nil
    /\ List_Head(Cur) = next[List_Tail(Cur)]
    /\ LET walk == NodesFrom(Cur, List_Head(Cur), size + 1)
       IN  /\ Len(walk) = size + 1
           /\ walk[size] = List_Tail(Cur)
           /\ walk[size + 1] = List_Head(Cur)
           /\ \A i \in 2..size : walk[i] # List_Head(Cur)
           /\ Distinct(SubSeq(walk, 1, size))

C2_Witness ==
  /\ kind \in Circular
  /\ fault = "none"
  /\ last.op = "RemoveLast"
  /\ last.pre.size = 3
  /\ size = 2

\* C3: in the two doubly linked lists, for every node a of the list with
\* a.next == b (b not nil), b.prev == a; in the circular list this includes
\* Head().Prev() == Tail(), and in the linear list Head().Prev() and
\* Tail().Next() are both nil.
C3_PrevMirrorsNext ==
  (kind \in Doubly /\ fault = "none") =>
    /\ \A i \in 1..Len(Elements(Cur)) :
         LET a == Elements(Cur)[i]
         IN  next[a] # Nil => prev[next[a]] = a
    /\ (kind \in Circular /\ size > 0) =>
         prev[List_Head(Cur)] = List_Tail(Cur)
    /\ (kind \in Linear /\ size > 0) =>
         /\ prev[List_Head(Cur)] = Nil
         /\ next[List_Tail(Cur)] = Nil

C3_Witness ==
  /\ kind \in Doubly
  /\ fault = "none"
  /\ last.op = "InsertAt"
  /\ last.index = 1
  /\ last.pre.size = 2
  /\ size = 3

\* C4: for each of the four lists, in every reachable state (the freshly
\* constructed list included) Size() == 0 if and only if Head() is nil, and
\* if and only if Tail() is nil; Size() is never negative.
C4_EmptyIffNoEnds ==
  fault = "none" =>
    /\ (List_Size(Cur) = 0) <=> (List_Head(Cur) = Nil)
    /\ (List_Size(Cur) = 0) <=> (List_Tail(Cur) = Nil)
    /\ List_Size(Cur) >= 0

C4_Witness ==
  /\ fault = "none"
  /\ last.op = "Remove"
  /\ last.pre.size = 1
  /\ List_Size(Cur) = 0
  /\ List_Head(Cur) = Nil

(***************************************************************************)
(* Insertion                                                               *)
(***************************************************************************)

\* C5: for each of the four lists and every list with value sequence s,
\* Append(v) yields s ++ [v] and Prepend(v) yields [v] ++ s, each increasing
\* Size() by exactly 1; when the list was empty, Head() and Tail() are
\* afterwards the same single new node.
C5_AppendPrependSequence ==
  LET before == Contents(last.pre)
      onEmpty == last.pre.size = 0 =>
                   /\ List_Head(Cur) # Nil
                   /\ List_Head(Cur) = List_Tail(Cur)
                   /\ Elements(Cur) = <<List_Head(Cur)>>
                   /\ value[List_Head(Cur)] = last.value
  IN  /\ last.op = "Append" =>
           /\ fault = "none"
           /\ Contents(Cur) = before \o <<last.value>>
           /\ List_Size(Cur) = List_Size(last.pre) + 1
           /\ onEmpty
      /\ last.op = "Prepend" =>
           /\ fault = "none"
           /\ Contents(Cur) = <<last.value>> \o before
           /\ List_Size(Cur) = List_Size(last.pre) + 1
           /\ onEmpty

C5_Witness ==
  /\ last.op = "Append"
  /\ last.pre.size = 2
  /\ Contents(last.pre) = <<1, 2>>
  /\ last.value = 1
  /\ Contents(Cur) = <<1, 2, 1>>

\* C6: for each of the four lists, every list with value sequence s and
\* every index i with 0 <= i <= Size(), InsertAt(i, v) returns no error and
\* yields s[0..i) ++ [v] ++ s[i..) with Size() increased by 1; InsertAt(0, v)
\* gives the same list as Prepend(v) and InsertAt(Size(), v) the same as
\* Append(v), the new node being Tail().
C6_InsertAtSplices ==
  (last.op = "InsertAt" /\ 0 <= last.index /\ last.index <= last.pre.size) =>
    LET before == Contents(last.pre)
        i == last.index
    IN  /\ fault = "none"
        /\ last.err = NoError
        /\ Contents(Cur) = SubSeq(before, 1, i) \o <<last.value>>
                             \o SubSeq(before, i + 1, Len(before))
        /\ List_Size(Cur) = List_Size(last.pre) + 1
        /\ i = 0 => Cur = List_Prepend(last.pre, last.value)
        /\ i = last.pre.size =>
             /\ Cur = List_Append(last.pre, last.value)
             /\ \A j \in 1..Len(Elements(last.pre)) :
                  Elements(last.pre)[j] # List_Tail(Cur)
             /\ List_Tail(Cur) # Nil
             /\ value[List_Tail(Cur)] = last.value

C6_Witness ==
  /\ last.op = "InsertAt"
  /\ last.index = 1
  /\ last.err = NoError
  /\ Contents(last.pre) = <<1, 1>>
  /\ Contents(Cur) = <<1, 2, 1>>

\* C7: for each of the four lists, InsertAt(i, v) with i < 0 or i > Size()
\* returns an out-of-bounds error and leaves the list unmodified: Size(),
\* Head(), Tail(), every node's links and every value are as before the call.
C7_InsertAtOutOfBounds ==
  (last.op = "InsertAt" /\ (last.index < 0 \/ last.index > last.pre.size)) =>
    /\ last.err = Errorf(last.index)
    /\ last.err # NoError
    /\ Cur = last.pre

C7_Witness ==
  /\ last.op = "InsertAt"
  /\ last.pre.size = 2
  /\ last.index = 3
  /\ last.err # NoError
  /\ size = 2

(***************************************************************************)
(* Indexed access                                                          *)
(***************************************************************************)

\* C8: for each of the four lists, Get(i) and Set(i, v) succeed exactly when
\* 0 <= i < Size(); for i < 0 or i >= Size() (every index on an empty list
\* included) they return an error, Get returns a nil node, and the list's
\* size, links and values are unchanged.
C8_GetSetRange ==
  LET inRange == 0 <= last.index /\ last.index < last.pre.size
  IN  /\ last.op = "Get" =>
           /\ (last.err = NoError /\ fault = "none") <=> inRange
           /\ ~inRange => /\ last.err # NoError
                          /\ last.node = Nil
                          /\ Cur = last.pre
      /\ last.op = "Set" =>
           /\ (last.err = NoError /\ fault = "none") <=> inRange
           /\ ~inRange => /\ last.err # NoError
                          /\ Cur = last.pre

C8_Witness ==
  /\ last.op = "Set"
  /\ last.pre.size = 2
  /\ last.index = 2
  /\ last.err # NoError

\* C9: for each of the four lists and every i with 0 <= i < Size(), Get(i)
\* returns the node reached from Head() after i next-steps, whose value is
\* the i-th element of the sequence; after Set(i, v), Get(i).Value() == v
\* while Size(), the values at all other indices and all node links are
\* unchanged.
C9_GetSetElement ==
  LET inRange == 0 <= last.index /\ last.index < last.pre.size
      i == last.index
      walk == NodesFrom(last.pre, List_Head(last.pre), i + 1)
      before == Contents(last.pre)
  IN  /\ (last.op = "Get" /\ inRange) =>
           /\ Len(walk) = i + 1
           /\ last.node = walk[i + 1]
           /\ i + 1 <= Len(before)
           /\ value[last.node] = before[i + 1]
      /\ (last.op = "Set" /\ inRange) =>
           /\ fault = "none"
           /\ List_Get(Cur, i).err = NoError
           /\ List_Get(Cur, i).node # Nil
           /\ value[List_Get(Cur, i).node] = last.value
           /\ List_Size(Cur) = List_Size(last.pre)
           /\ Len(Contents(Cur)) = Len(before)
           /\ \A j \in 1..Len(before) :
                Contents(Cur)[j] = IF j = i + 1 THEN last.value ELSE before[j]
           /\ next = last.pre.next
           /\ prev = last.pre.prev
           /\ head = last.pre.head
           /\ tail = last.pre.tail

C9_Witness ==
  /\ last.op = "Set"
  /\ last.index = 1
  /\ last.err = NoError
  /\ Contents(last.pre) = <<1, 1, 1>>
  /\ last.value = 2
  /\ Contents(Cur) = <<1, 2, 1>>

(***************************************************************************)
(* Removal by value                                                        *)
(***************************************************************************)

\* seq without its k-th element.
Without(seq, k) == SubSeq(seq, 1, k - 1) \o SubSeq(seq, k + 1, Len(seq))

\* C10: for each of the four lists and every list with value sequence s: if
\* v occurs in s, Remove(v) deletes exactly the occurrence with the lowest
\* index and nothing else (the other elements, later duplicates of v
\* included, keep their order), Size() decreases by exactly 1, and Tail()
\* becomes the predecessor node when the node removed was the tail (no node
\* when it was the only one); if v does not occur in s, the list is
\* unchanged.
C10_RemoveFirstOccurrence ==
  last.op = "Remove" =>
    LET before == Contents(last.pre)
        nodes == Elements(last.pre)
        v == last.value
        hits == {i \in 1..Len(before) : before[i] = v}
    IN  IF hits = {} THEN Cur = last.pre
        ELSE LET k == CHOOSE i \in hits : \A j \in hits : i <= j
             IN  /\ fault = "none"
                 /\ Contents(Cur) = Without(before, k)
                 /\ Elements(Cur) = Without(nodes, k)
                 /\ List_Size(Cur) = List_Size(last.pre) - 1
                 /\ nodes[k] = List_Tail(last.pre) =>
                      List_Tail(Cur) = IF k > 1 THEN nodes[k - 1] ELSE Nil

C10_Witness ==
  /\ last.op = "Remove"
  /\ last.value = 1
  /\ Contents(last.pre) = <<2, 1, 1>>
  /\ Contents(Cur) = <<2, 1>>

(***************************************************************************)
(* Searching                                                               *)
(***************************************************************************)

\* C11: for each of the four lists, Find(v) returns the node at the lowest
\* index whose value equals v, or nil when no element equals v (on an empty
\* list in particular); Contains(v) is offered by every list type and
\* returns true exactly when Find(v) returns a node.
C11_FindLowestContainsEverywhere ==
  /\ "Contains" \in Methods(kind)
  /\ last.op = "Find" =>
       LET before == Contents(last.pre)
           nodes == Elements(last.pre)
           hits == {i \in 1..Len(before) : before[i] = last.value}
       IN  /\ fault = "none"
           /\ Cur = last.pre
           /\ last.node = IF hits = {} THEN Nil
                          ELSE nodes[CHOOSE i \in hits : \A j \in hits : i <= j]
  /\ last.op = "Contains" =>
       /\ fault = "none"
       /\ Cur = last.pre
       /\ last.found = (List_Find(last.pre, last.value).node # Nil)

(***************************************************************************)
(* Removal at the ends                                                     *)
(***************************************************************************)

\* C12: for each of the four lists and every list with value sequence s of
\* length n >= 2, RemoveFirst() yields s[1..n) with Head() the former second
\* node, and RemoveLast() yields s[0..n-1) with Tail() the former
\* second-to-last node; each decreases Size() by exactly 1 and keeps the
\* order of the remaining elements.
C12_RemoveEndsShiftByOne ==
  (last.op \in {"RemoveFirst", "RemoveLast"} /\ List_Size(last.pre) >= 2) =>
    LET before == Contents(last.pre)
        nodes == Elements(last.pre)
        n == List_Size(last.pre)
    IN  /\ fault = "none"
        /\ Len(before) = n
        /\ List_Size(Cur) = n - 1
        /\ last.op = "RemoveFirst" =>
             /\ Contents(Cur) = SubSeq(before, 2, n)
             /\ Elements(Cur) = SubSeq(nodes, 2, n)
             /\ List_Head(Cur) = nodes[2]
        /\ last.op = "RemoveLast" =>
             /\ Contents(Cur) = SubSeq(before, 1, n - 1)
             /\ Elements(Cur) = SubSeq(nodes, 1, n - 1)
             /\ List_Tail(Cur) = nodes[n - 1]

C12_Witness ==
  /\ kind = "CircularSinglyLinkedList"
  /\ last.op = "RemoveLast"
  /\ Contents(last.pre) = <<1, 2, 1>>
  /\ Contents(Cur) = <<1, 2>>
  /\ List_Tail(Cur) = Elements(last.pre)[2]

(***************************************************************************)
(* Empty and single-element lists                                          *)
(***************************************************************************)

\* C13: for each of the four lists, on an empty list RemoveFirst(),
\* RemoveLast(), Remove(v), Reverse() and Clear() raise no error and leave
\* the list empty (Size() = 0, Head() and Tail() nil), Find(v) returns nil
\* and Contains(v) returns false, for every v.
C13_EmptyListNoOps ==
  /\ ( /\ last.op \in {"RemoveFirst", "RemoveLast", "Remove", "Reverse",
                       "Clear"}
       /\ List_IsEmpty(last.pre) ) =>
       /\ fault = "none"
       /\ last.err = NoError
       /\ List_Size(Cur) = 0
       /\ List_Head(Cur) = Nil
       /\ List_Tail(Cur) = Nil
  /\ (last.op = "Find" /\ List_IsEmpty(last.pre)) =>
       /\ fault = "none"
       /\ last.node = Nil
       /\ Cur = last.pre
  /\ (fault = "none" /\ List_IsEmpty(Cur)) =>
       \A v \in Values :
         /\ "Contains" \in Methods(kind)
         /\ List_Contains(Cur, v) = [found |-> FALSE, fault |-> "none"]

\* C14: for each of the four lists, on a list with exactly one element x,
\* each of RemoveFirst(), RemoveLast() and Remove(x) leaves the list in the
\* same state as Clear(): Size() = 0 and both Head() and Tail() nil.
C14_SingleElementRemovalClears ==
  ( /\ List_Size(last.pre) = 1
    /\ \/ last.op \in {"RemoveFirst", "RemoveLast"}
       \/ last.op = "Remove" /\ Contents(last.pre) = <<last.value>> ) =>
    /\ fault = "none"
    /\ List_Size(Cur) = 0
    /\ List_Head(Cur) = Nil
    /\ List_Tail(Cur) = Nil
    /\ List_IsEmpty(Cur)
    /\ Contents(Cur) = <<>>
    /\ Collect(Cur) = Collect(List_Clear(last.pre))

C14_Witness ==
  /\ kind = "DoublyLinkedList"
  /\ last.op = "RemoveLast"
  /\ Contents(last.pre) = <<2>>
  /\ List_Size(Cur) = 0

(***************************************************************************)
(* Reverse                                                                 *)
(***************************************************************************)

\* seq back to front.
Reversed(seq) == [i \in 1..Len(seq) |-> seq[Len(seq) + 1 - i]]

\* C15: for each of the four lists and every list with value sequence s,
\* Reverse() yields exactly the reversed sequence of s with Size() unchanged,
\* and all structural invariants of the list type (nil termination or ring
\* closure, prev/next symmetry) hold afterwards; on an empty or
\* single-element list it changes nothing.
C15_ReverseReversesSequence ==
  last.op = "Reverse" =>
    /\ fault = "none"
    /\ Contents(Cur) = Reversed(Contents(last.pre))
    /\ Elements(Cur) = Reversed(Elements(last.pre))
    /\ List_Size(Cur) = List_Size(last.pre)
    /\ Len(Contents(Cur)) = List_Size(Cur)
    /\ C1_LinearChainHasSizeNodes
    /\ C2_RingHasSizeNodes
    /\ C3_PrevMirrorsNext
    /\ List_Size(last.pre) <= 1 => Cur = last.pre

C15_Witness ==
  /\ kind = "CircularSinglyLinkedList"
  /\ last.op = "Reverse"
  /\ Contents(last.pre) = <<1, 2, 2>>
  /\ Contents(Cur) = <<2, 2, 1>>

\* C16: for each of the four lists and every list state, applying Reverse()
\* twice restores the original value sequence, and Head() and Tail() are
\* again the same nodes (with the same values) as before the two calls.
C16_ReverseTwiceRestores ==
  last.op = "Reverse" =>
    LET once == List_Reverse(last.pre)
        twice == List_Reverse(once)
    IN  /\ Cur = once
        /\ twice.fault = "none"
        /\ Contents(twice) = Contents(last.pre)
        /\ Elements(twice) = Elements(last.pre)
        /\ List_Size(twice) = List_Size(last.pre)
        /\ List_Head(twice) = List_Head(last.pre)
        /\ List_Tail(twice) = List_Tail(last.pre)
        /\ List_Head(twice) # Nil =>
             twice.value[List_Head(twice)] = last.pre.value[List_Head(last.pre)]
        /\ List_Tail(twice) # Nil =>
             twice.value[List_Tail(twice)] = last.pre.value[List_Tail(last.pre)]

C16_Witness ==
  /\ kind = "DoublyLinkedList"
  /\ last.op = "Reverse"
  /\ Contents(last.pre) = <<1, 1, 2>>
  /\ Contents(Cur) = <<2, 1, 1>>
  /\ Contents(List_Reverse(Cur)) = <<1, 1, 2>>

(***************************************************************************)
(* Clear                                                                   *)
(***************************************************************************)

\* The list a constructor returns: no nodes, size 0.
NewList ==
  [head |-> Nil, tail |-> Nil, size |-> 0,
   next |-> [n \in Nodes |-> Nil],
   prev |-> [n \in Nodes |-> Nil],
   value |-> [n \in Nodes |-> 0],
   fault |-> "none", roots |-> {}]

\* What a caller can see of a list: its values in order, its size, and
\* whether the call that produced it panicked.
Observed(s) == <<Contents(s), List_Size(s), s.fault>>

\* C17: for each of the four lists, Clear() from any reachable state yields
\* Size() = 0 with Head() and Tail() nil, and the cleared list cannot be told
\* from a newly constructed one: any later sequence of operations gives the
\* same value sequence, size and errors as on a fresh list.
C17_ClearedIsFresh ==
  last.op = "Clear" =>
    /\ fault = "none"
    /\ List_Size(Cur) = 0
    /\ List_Head(Cur) = Nil
    /\ List_Tail(Cur) = Nil
    \* the nodes still reachable are those of a new list: none
    /\ Collect(Cur) = NewList
    \* and each operation already behaves as on a new list
    /\ \A v \in Values :
         /\ Observed(List_Prepend(Cur, v)) = Observed(List_Prepend(NewList, v))
         /\ Observed(List_Append(Cur, v)) = Observed(List_Append(NewList, v))
         /\ Observed(List_Remove(Cur, v)) = Observed(List_Remove(NewList, v))
         /\ List_Find(Cur, v) = List_Find(NewList, v)
         /\ \A index \in Indices :
              /\ Observed(List_InsertAt(Cur, index, v).st)
                   = Observed(List_InsertAt(NewList, index, v).st)
              /\ List_InsertAt(Cur, index, v).err
                   = List_InsertAt(NewList, index, v).err
              /\ Observed(List_Set(Cur, index, v).st)
                   = Observed(List_Set(NewList, index, v).st)
              /\ List_Set(Cur, index, v).err = List_Set(NewList, index, v).err
              /\ List_Get(Cur, index) = List_Get(NewList, index)
    /\ Observed(List_RemoveFirst(Cur)) = Observed(List_RemoveFirst(NewList))
    /\ Observed(List_RemoveLast(Cur)) = Observed(List_RemoveLast(NewList))
    /\ Observed(List_Reverse(Cur)) = Observed(List_Reverse(NewList))
    /\ Observed(List_Clear(Cur)) = Observed(List_Clear(NewList))
    /\ List_ForEach(Cur) = List_ForEach(NewList)
    /\ List_String(Cur) = List_String(NewList)

C17_Witness ==
  /\ kind = "SinglyLinkedList"
  /\ last.op = "Clear"
  /\ Contents(last.pre) = <<2, 1, 2>>
  /\ List_Size(Cur) = 0
  /\ Cur # NewList

(***************************************************************************)
(* Traversal and conversion                                                *)
(***************************************************************************)

\* C18: for each of the four lists, ForEach(action) with an action that does
\* not modify the list invokes action exactly Size() times, once per
\* element, with the values in head-to-tail order; on an empty list action
\* is never invoked.
C18_ForEachVisitsInOrder ==
  last.op = "ForEach" =>
    /\ fault = "none"
    /\ Cur = last.pre
    /\ Len(last.out) = List_Size(last.pre)
    /\ last.out = Contents(last.pre)
    /\ \A i \in 1..Len(last.out) :
         last.out[i] = last.pre.value[Elements(last.pre)[i]]
    /\ List_IsEmpty(last.pre) => last.out = <<>>

C18_Witness ==
  /\ kind = "CircularDoublyLinkedList"
  /\ last.op = "ForEach"
  /\ Contents(last.pre) = <<1, 2, 2>>
  /\ last.out = <<1, 2, 2>>

\* C19: DoublyLinkedList.ToSlice() returns a new sequence of length Size()
\* holding the list's values in head-to-tail order (the empty sequence for an
\* empty list), leaves the list unchanged, and later mutations of the list do
\* not change an already returned sequence.
C19_ToSliceCopiesValues ==
  /\ last.op = "ToSlice" =>
       /\ kind = "DoublyLinkedList"
       /\ fault = "none"
       /\ Cur = last.pre
       /\ Len(last.out) = List_Size(last.pre)
       /\ last.out = Contents(last.pre)
       /\ List_IsEmpty(last.pre) => last.out = <<>>
  \* the slice the caller still holds is what the list held when ToSlice
  \* returned, whatever the call made since did to the list
  /\ last.slice # <<>> =>
       /\ kind = "DoublyLinkedList"
       /\ Len(last.slice) = 1
       /\ last.slice[1] = Contents(last.pre)

C19_Witness ==
  /\ last.slice = << <<1, 2, 1>> >>
  /\ last.op = "Set"
  /\ last.err = NoError
  /\ Contents(Cur) = <<1, 2, 2>>

(***************************************************************************)
(* String                                                                  *)
(***************************************************************************)

\* The separator each list type is documented to print between elements;
\* "U+2194" stands for the one character LEFT RIGHT ARROW.
Separator ==
  [k \in Kinds |->
     CASE k = "SinglyLinkedList" -> <<" ", "-", ">", " ">>
       [] k = "CircularSinglyLinkedList" -> <<" ", "-", ">", " ">>
       [] k = "DoublyLinkedList" -> <<" ", "U+2194", " ">>
       [] k = "CircularDoublyLinkedList" -> <<" ", "<", "-", ">", " ">>]

TypeName ==
  [k \in Kinds |->
     CASE k = "SinglyLinkedList" -> <<"S", "i", "n", "g", "l", "y", "L", "i", "n", "k", "e", "d", "L", "i", "s", "t">>
       [] k = "CircularSinglyLinkedList" -> <<"C", "i", "r", "c", "u", "l", "a", "r", "S", "i", "n", "g", "l", "y", "L", "i", "n", "k", "e", "d", "L", "i", "s", "t">>
       [] k = "DoublyLinkedList" -> <<"D", "o", "u", "b", "l", "y", "L", "i", "n", "k", "e", "d", "L", "i", "s", "t">>
       [] k = "CircularDoublyLinkedList" -> <<"C", "i", "r", "c", "u", "l", "a", "r", "D", "o", "u", "b", "l", "y", "L", "i", "n", "k", "e", "d", "L", "i", "s", "t">>]

\* The values, each in brackets, with sep between neighbours.
RECURSIVE Joined(_, _)
Joined(vals, sep) ==
  IF vals = <<>> THEN <<>>
  ELSE IF Len(vals) = 1 THEN <<"[">> \o FormatValue(vals[1]) \o <<"]">>
  ELSE <<"[">> \o FormatValue(vals[1]) \o <<"]">> \o sep
         \o Joined(Tail(vals), sep)

\* How often the characters of part occur, in a row, in text.
Occurrences(text, part) ==
  Cardinality({i \in 1..(Len(text) - Len(part) + 1) :
                 SubSeq(text, i, i + Len(part) - 1) = part})

Numeral(i) == IF i = 0 - 1 THEN <<"-", "1">> ELSE <<DecimalDigits[i + 1]>>

\* C21: for each of the four lists, the error returned by Get, Set and
\* InsertAt for an out-of-range index i names that same index: its message
\* is exactly "index <i> out of bounds" (Set(2, v) on a one-element list
\* gives "index 2 out of bounds"), and Set reports the same error as Get for
\* the same index.
C21_ErrorNamesIndex ==
  /\ ( \/ /\ last.op \in {"Get", "Set"}
          /\ (last.index < 0 \/ last.index >= List_Size(last.pre))
       \/ /\ last.op = "InsertAt"
          /\ (last.index < 0 \/ last.index > List_Size(last.pre)) ) =>
       /\ fault = "none"
       /\ last.err = <<"i", "n", "d", "e", "x", " ">> \o Numeral(last.index)
                       \o <<" ", "o", "u", "t", " ", "o", "f", " ", "b", "o", "u", "n", "d", "s">>
  /\ last.op = "Set" => last.err = List_Get(last.pre, last.index).err
  /\ (last.op = "Set" /\ last.index = 2 /\ List_Size(last.pre) = 1) =>
       last.err = <<"i", "n", "d", "e", "x", " ", "2", " ", "o",
                    "u", "t", " ", "o", "f", " ", "b", "o", "u", "n", "d", "s">>

C21_Witness ==
  /\ kind = "SinglyLinkedList"
  /\ last.op = "Set"
  /\ last.index = 0 - 1
  /\ List_Size(last.pre) = 2
  /\ last.err = <<"i", "n", "d", "e", "x", " ", "-", "1", " ",
                "o", "u", "t", " ", "o", "f", " ", "b", "o", "u", "n", "d", "s">>

(***************************************************************************)
(* Two lists                                                               *)
(***************************************************************************)

AbstractCall(seq, op, index, v) ==
  LET n == Len(seq)
      hits == {i \in 1..n : seq[i] = v}
      same == [seq |-> seq, ok |-> TRUE, yield |-> 0]
  IN  CASE op = "Prepend" -> [same EXCEPT !.seq = <<v>> \o seq]
        [] op = "Append" -> [same EXCEPT !.seq = seq \o <<v>>]
        [] op = "InsertAt" ->
             IF index < 0 \/ index > n THEN [same EXCEPT !.ok = FALSE]
             ELSE [same EXCEPT !.seq = SubSeq(seq, 1, index) \o <<v>>
                                         \o SubSeq(seq, index + 1, n)]
        [] op = "Get" ->
             IF index < 0 \/ index >= n THEN [same EXCEPT !.ok = FALSE]
             ELSE [same EXCEPT !.yield = seq[index + 1]]
        [] op = "Set" ->
             IF index < 0 \/ index >= n THEN [same EXCEPT !.ok = FALSE]
             ELSE [same EXCEPT !.seq = [seq EXCEPT ![index + 1] = v]]
        [] op = "Find" ->
             IF hits = {} THEN same ELSE [same EXCEPT !.yield = v]
        [] op = "Remove" ->
             IF hits = {} THEN same
             ELSE [same EXCEPT !.seq =
                     Without(seq, CHOOSE i \in hits : \A j \in hits : i <= j)]
        [] op = "RemoveFirst" ->
             IF n = 0 THEN same ELSE [same EXCEPT !.seq = SubSeq(seq, 2, n)]
        [] op = "RemoveLast" ->
             IF n = 0 THEN same ELSE [same EXCEPT !.seq = SubSeq(seq, 1, n - 1)]
        [] op = "Reverse" -> [same EXCEPT !.seq = Reversed(seq)]
        [] op = "Clear" -> [same EXCEPT !.seq = <<>>]

\* C23: the four lists are observationally equivalent on their common
\* operations: for every finite sequence of Prepend, Append, InsertAt, Get,
\* Set, Find, Remove, RemoveFirst, RemoveLast, Reverse and Clear calls with
\* the same arguments, all four yield the same head-to-tail value sequence,
\* the same Size(), and the same success/error outcome at every step, equal
\* to those of an abstract finite sequence.
C23_AllFourAreTheSequence ==
  /\ last.op = "New" => Contents(Cur) = <<>> /\ List_Size(Cur) = 0
  /\ last.op \in {"Prepend", "Append", "InsertAt", "Get", "Set", "Find",
                  "Remove", "RemoveFirst", "RemoveLast", "Reverse", "Clear"} =>
       LET a == AbstractCall(Contents(last.pre), last.op, last.index,
                             last.value)
       IN  /\ fault = "none"
           /\ Contents(Cur) = a.seq
           /\ List_Size(Cur) = Len(a.seq)
           /\ (last.err = NoError) = a.ok
           /\ last.op \in {"Get", "Find"} =>
                a.yield = IF last.node = Nil THEN 0 ELSE value[last.node]

C23_Witness ==
  /\ kind = "CircularDoublyLinkedList"
  /\ last.op = "InsertAt"
  /\ last.index = 1
  /\ last.value = 1
  /\ Contents(last.pre) = <<2, 2>>
  /\ Contents(Cur) = <<2, 1, 2>>

\* C24: for each of the four lists and every list with Size() >= 2,
\* Reverse() relinks the existing nodes in place without creating or
\* dropping any node: afterwards Tail() is the very node that was Head()
\* before the call, Head() is the node that was Tail() before, and the set
\* of nodes in the list is unchanged.
C24_ReverseRelinksInPlace ==
  (last.op = "Reverse" /\ List_Size(last.pre) >= 2) =>
    LET before == Elements(last.pre)
        after == Elements(Cur)
    IN  /\ fault = "none"
        /\ List_Tail(Cur) = List_Head(last.pre)
        /\ List_Head(Cur) = List_Tail(last.pre)
        /\ List_Head(Cur) # List_Tail(Cur)
        /\ {after[i] : i \in 1..Len(after)} = {before[i] : i \in 1..Len(before)}
        /\ Len(after) = Len(before)
        /\ Live(Cur) = Live(last.pre)
        /\ value = last.pre.value

C24_Witness ==
  /\ kind = "SinglyLinkedList"
  /\ last.op = "Reverse"
  /\ List_Size(last.pre) = 3
  /\ Contents(last.pre) = <<1, 1, 2>>
  /\ List_Tail(Cur) = List_Head(last.pre)

(***************************************************************************)
(* The circular lists                                                      *)
(***************************************************************************)

\* C25: in both circular lists, on a non-empty list, Prepend(v) leaves
\* Tail() the same node and makes the new node Head(); Append(v) makes the
\* new node Tail() and leaves Head() the same node as before; in both cases
\* ring closure (and, for the doubly linked list, prev/next symmetry at both
\* splice points) holds immediately after the call.
C25_CircularSpliceAtSeam ==
  ( /\ kind \in Circular
    /\ last.op \in {"Prepend", "Append"}
    /\ List_Size(last.pre) > 0 ) =>
    LET oldHead == List_Head(last.pre)
        oldTail == List_Tail(last.pre)
        added == Live(Cur) \ Live(last.pre)
    IN  /\ fault = "none"
        /\ Cardinality(added) = 1
        /\ \A n \in added :
             /\ value[n] = last.value
             /\ last.op = "Prepend" =>
                  List_Tail(Cur) = oldTail /\ List_Head(Cur) = n
             /\ last.op = "Append" =>
                  List_Tail(Cur) = n /\ List_Head(Cur) = oldHead
             \* the new node sits at the seam, between old tail and old head
             /\ next[oldTail] = n
             /\ next[n] = oldHead
             /\ kind \in Doubly => prev[n] = oldTail /\ prev[oldHead] = n
        /\ next[List_Tail(Cur)] = List_Head(Cur)
        /\ Len(Elements(Cur)) = List_Size(Cur)
        /\ Elements(Cur)[List_Size(Cur)] = List_Tail(Cur)
        /\ C2_RingHasSizeNodes

C25_Witness ==
  /\ kind = "CircularDoublyLinkedList"
  /\ last.op = "Prepend"
  /\ List_Size(last.pre) = 2
  /\ List_Tail(Cur) = List_Tail(last.pre)
  /\ List_Head(Cur) \notin Live(last.pre)

\* seq begins with part.
StartsWith(seq, part) ==
  Len(part) <= Len(seq) /\ SubSeq(seq, 1, Len(part)) = part

C27_EveryCallReturns ==
  \* no call made so far panicked or ran on for ever
  /\ fault = "none"
  \* and neither would any call that can be made next
  /\ Ready =>
       /\ \A v \in Values :
            /\ HasRoom(Cur) => /\ List_Prepend(Cur, v).fault = "none"
                               /\ List_Append(Cur, v).fault = "none"
            /\ List_Find(Cur, v).fault = "none"
            /\ List_Remove(Cur, v).fault = "none"
            /\ "Contains" \in Methods(kind) =>
                 List_Contains(Cur, v).fault = "none"
            /\ \A index \in Indices :
                 /\ (HasRoom(Cur) \/ index < 0 \/ index > size) =>
                      List_InsertAt(Cur, index, v).st.fault = "none"
                 /\ List_Set(Cur, index, v).st.fault = "none"
                 /\ List_Get(Cur, index).fault = "none"
       /\ List_RemoveFirst(Cur).fault = "none"
       /\ List_RemoveLast(Cur).fault = "none"
       /\ List_Reverse(Cur).fault = "none"
       /\ List_Clear(Cur).fault = "none"
       /\ List_ForEach(Cur).fault = "none"
       /\ List_String(Cur).fault = "none"
       /\ "ToSlice" \in Methods(kind) => List_ToSlice(Cur).fault = "none"

C27_Witness ==
  /\ kind = "CircularSinglyLinkedList"
  /\ last.op = "RemoveLast"
  /\ List_Size(last.pre) = 3
  /\ List_Size(Cur) = 2
  /\ fault = "none"

(***************************************************************************)
(* Queries                                                                 *)
(***************************************************************************)

RECURSIVE PrevFrom(_, _, _)
PrevFrom(s, n, k) ==
  IF n = Nil \/ k <= 0 THEN <<>>
  ELSE <<n>> \o PrevFrom(s, s.prev[n], k - 1)

\* The nodes met from n along prev until the walk is back at tl (or at nil).
RECURSIVE PrevRingFrom(_, _, _, _)
PrevRingFrom(s, n, tl, k) ==
  IF n = Nil \/ k <= 0 THEN <<>>
  ELSE IF s.prev[n] = tl THEN <<n>>
  ELSE <<n>> \o PrevRingFrom(s, s.prev[n], tl, k - 1)

\* The nodes of a doubly linked list from Tail() backwards.
ElementsBackward(s) ==
  IF kind \in Circular
  THEN PrevRingFrom(s, List_Tail(s), List_Tail(s), MaxNodes + 1)
  ELSE PrevFrom(s, List_Tail(s), MaxNodes + 1)

\* C29: in DoublyLinkedList and CircularDoublyLinkedList, after any sequence
\* of the public list operations (Reverse included), walking from Tail()
\* along prev visits exactly Size() nodes and yields the exact reverse of
\* the value sequence obtained by walking from Head() along next (ending at
\* nil in the linear list, returning to Tail() in the circular one).
C29_BackwardWalkMirrors ==
  kind \in Doubly =>
    LET back == ElementsBackward(Cur)
    IN  /\ fault = "none"
        /\ Len(back) = List_Size(Cur)
        /\ Distinct(back)
        /\ back = Reversed(Elements(Cur))
        /\ ValuesOf(Cur, back) = Reversed(Contents(Cur))
        /\ List_Size(Cur) > 0 =>
             /\ back[1] = List_Tail(Cur)
             /\ back[Len(back)] = List_Head(Cur)
             /\ prev[back[Len(back)]] =
                  IF kind \in Circular THEN List_Tail(Cur) ELSE Nil

C29_Witness ==
  /\ kind = "DoublyLinkedList"
  /\ last.op = "Reverse"
  /\ Contents(Cur) = <<2, 1, 1>>
  /\ ValuesOf(Cur, ElementsBackward(Cur)) = <<1, 1, 2>>

(***************************************************************************)
(* Removed nodes                                                           *)
(***************************************************************************)

\* The nodes a walk from Head() or Tail() can come to, by next or by prev.
Reachable(s) == Reach(s, {List_Head(s), List_Tail(s)} \ {Nil})

\* C30: for each of the four lists, after RemoveFirst, RemoveLast or
\* Remove(v) takes a node out of a list, that node is no longer reachable
\* from the list's Head() or Tail() through any chain of next (or prev)
\* links, even though the removed node's own links are not cleared; after
\* Clear() no former node is reachable from the list.
C30_RemovedNodesUnreachable ==
  /\ ( /\ last.op \in {"RemoveFirst", "RemoveLast", "Remove"}
       /\ List_Size(Cur) < List_Size(last.pre) ) =>
       LET before == Elements(last.pre)
           after == Elements(Cur)
           gone == {before[i] : i \in 1..Len(before)}
                     \ {after[i] : i \in 1..Len(after)}
       IN  /\ fault = "none"
           /\ Cardinality(gone) = 1
           /\ \A n \in gone :
                /\ n \notin Reachable(Cur)
                \* its own links still are what they were
                /\ next[n] = last.pre.next[n]
                /\ prev[n] = last.pre.prev[n]
           /\ Reachable(Cur) = {after[i] : i \in 1..Len(after)}
  /\ last.op = "Clear" =>
       /\ Reachable(Cur) = {}
       /\ next = last.pre.next
       /\ prev = last.pre.prev

C30_Witness ==
  /\ kind = "DoublyLinkedList"
  /\ last.op = "RemoveFirst"
  /\ List_Size(last.pre) = 3
  /\ List_Head(last.pre) \notin Reachable(Cur)
  /\ next[List_Head(last.pre)] = List_Head(Cur)

====
